---------------------------- MODULE Spec2Model ----------------------------
(***************************************************************************)
(* Model of the restaurant dialog agent (src/dialog_agent.py): the session *)
(* fields of dialogAgent, the turn loop start_dialog and the handler       *)
(* __state_transition with the helpers it calls.                           *)
(*                                                                         *)
(* Python None is the string "None" for string-valued fields, the empty    *)
(* sequence for sugg_restaurant and FALSE for the four secondary flags     *)
(* (the code only ever stores None or True in them and reads them by       *)
(* truthiness).                                                            *)
(***************************************************************************)
EXTENDS Integers, Sequences, FiniteSets, TLC

None == "None"

\* ------------------------------------------------------------------ bounds
\* Number of iterations of the loop of start_dialog that are explored.
MaxTurns == 5

\* --------------------------------------------------------------- constants
Welcome == "1. Welcome"
AskArea == "2.2 Ask Area"
AskPrice == "3.2 Ask price"
AskFood == "4.2 Ask Food type"
AskAdditional == "4.1 Ask for additional preferences"
ChangePreference == "5.2 Change 1 of preferences"
SuggestRestaurant == "6.1 Suggest restaurant"
ProvideInformation == "7.1 Provide information questioned"
LastStatement == "8.1 Last restaurant statement"
Goodbye == "9.1 Goodbye"
ConfirmPreference == "Confirm preference"
\* The turn raised an exception (e.g. subscripting a None suggestion): the
\* exception leaves start_dialog, so the loop ends without a further turn.
Raised == "raised"

AskStates == {AskArea, AskPrice, AskFood}
SlotFillingStates == {Welcome, AskArea, AskPrice, AskFood}

WELCOME_MESSAGE == "Hello , welcome to the Cambridge restaurant system? You can ask for restaurants by area , price range or food type . How may I help you?"
WELCOME_MESSAGE_INFORMAL == "Eyoo, What's up? I'm gonna help you pick a restaurant to eat. Just tell me the area, price range and what type of food you like."

\* A system message: a literal text, or a format string with its arguments.
Msg(text, args) == [text |-> text, args |-> args]
Lit(text) == Msg(text, <<>>)
NoMessage == Lit(None)

\* Labels of the intent classifier (the label set of the dialog-act data).
\* ack, hello, repeat, reqmore and thankyou are matched by no rule of the
\* handler; "hello" stands for them.
DialogActs ==
    {"inform", "request", "reqalts", "confirm", "affirm", "deny", "negate",
     "null", "bye", "restart", "hello"}

confirm_intents == {"confirm", "affirm"}
deny_intents == {"deny", "negate"}

\* --------------------------------------------------- restaurant repository
\* Rows of the expanded restaurant table (name, area, pricerange, food and
\* the three simulated experience columns).  reasoning_explained is the key
\* the reasoning filter adds; the empty sequence stands for "key absent".
Row(n, a, p, f, q, c, l) ==
    [restaurantname |-> n, area |-> a, pricerange |-> p, food |-> f,
     food_quality |-> q, crowdedness |-> c, length_of_stay |-> l,
     reasoning_explained |-> <<>>]

RestaurantTable ==
    << Row("r1", "north", "cheap", "thai", "good", "busy", "short"),
       Row("r2", "north", "cheap", "thai", "good", "low", "long"),
       Row("r3", "north", "cheap", "romanian", "good", "medium", "long"),
       Row("r4", "south", "expensive", "thai", "mediocre", "busy", "medium") >>

restaurant_info == RestaurantTable

\* The concrete values the user's utterances name in this model (a subset of
\* the values of the table's columns; the other rows are reached through the
\* wildcard).
AreaValues == {"north", "south"}
PriceValues == {"cheap"}
FoodValues == {"thai"}

\* ------------------------------------------------------ list helpers
RECURSIVE SelectSeqBy(_, _)
\* [x for x in seq if keep[x]], order preserved (keep is a set of indices)
SelectSeqBy(seq, keep) ==
    IF seq = <<>> THEN <<>>
    ELSE LET n == Len(seq)
             front == SelectSeqBy(SubSeq(seq, 1, n - 1), keep)
         IN IF n \in keep THEN Append(front, seq[n]) ELSE front

\* list.remove(x): drops the first element equal to x
RemoveFirst(seq, x) ==
    IF \E i \in 1..Len(seq) : seq[i] = x
    THEN LET i == CHOOSE k \in 1..Len(seq) :
                      seq[k] = x /\ \A j \in 1..(k - 1) : seq[j] # x
         IN SubSeq(seq, 1, i - 1) \o SubSeq(seq, i + 1, Len(seq))
    ELSE seq

SeqToSet(seq) == {seq[i] : i \in 1..Len(seq)}

\* ------------------------------------------------------------- lookup
\* __look_up_restaurants: the rows matching every slot that is not the
\* wildcard, in table order.
look_up_restaurants(area_, priceRange, food_type) ==
    LET df == restaurant_info
        keep == {i \in 1..Len(df) :
                    /\ (area_ # "dontcare" => df[i].area = area_)
                    /\ (food_type # "dontcare" => df[i].food = food_type)
                    /\ (priceRange # "dontcare" => df[i].pricerange = priceRange)}
    IN SelectSeqBy(df, keep)

\* ---------------------------------------------------- reasoning filter
\* One clause of the justification per rule passed; the clause is named by
\* its flag (its text is fixed by the flag and the row's attribute values).
TouristicStep(j, on) ==
    IF ~on THEN j
    ELSE LET r == j.restaurant
             romanian == (r.food = "romanian")
             cheap_good == (r.pricerange = "cheap" /\ r.food_quality = "good")
         IN IF romanian THEN [j EXCEPT !.remove = TRUE]
            ELSE IF ~cheap_good THEN [j EXCEPT !.remove = TRUE]
            ELSE [j EXCEPT !.restaurant.reasoning_explained = <<"touristic">>]

\* Variant of the assigned-seats rule with the test inverted (== "busy").
AssignedSeatsStep_inverted(j, on) ==
    IF ~on THEN j
    ELSE IF j.restaurant.crowdedness = "busy" THEN [j EXCEPT !.remove = TRUE]
    ELSE [j EXCEPT !.restaurant.reasoning_explained = Append(@, "assigned_seats")]

AssignedSeatsStep(j, on) ==
    IF ~on THEN j
    ELSE IF j.restaurant.crowdedness # "busy" THEN [j EXCEPT !.remove = TRUE]
    ELSE [j EXCEPT !.restaurant.reasoning_explained = Append(@, "assigned_seats")]

\* Variant of the children rule that assigns its clause (=) instead of
\* appending it (+=).
ChildrenStep_overwrites(j, on) ==
    IF ~on THEN j
    ELSE IF j.restaurant.length_of_stay = "long" THEN [j EXCEPT !.remove = TRUE]
    ELSE [j EXCEPT !.restaurant.reasoning_explained = <<"children">>]

ChildrenStep(j, on) ==
    IF ~on THEN j
    ELSE IF j.restaurant.length_of_stay = "long" THEN [j EXCEPT !.remove = TRUE]
    ELSE [j EXCEPT !.restaurant.reasoning_explained = Append(@, "children")]

\* Variant of the romantic rule that tests the length of stay only.
RomanticStep_ignores_busy(j, on) ==
    IF ~on THEN j
    ELSE IF j.restaurant.length_of_stay # "long" THEN [j EXCEPT !.remove = TRUE]
    ELSE [j EXCEPT !.restaurant.reasoning_explained = Append(@, "romantic")]

RomanticStep(j, on) ==
    IF ~on THEN j
    ELSE LET r == j.restaurant
             busy == (r.crowdedness = "busy")
             long_stay == (r.length_of_stay = "long")
         IN IF ~long_stay THEN [j EXCEPT !.remove = TRUE]
            ELSE IF busy THEN [j EXCEPT !.remove = TRUE]
            ELSE [j EXCEPT !.restaurant.reasoning_explained = Append(@, "romantic")]

\* The body of the loop over possible_restaurants for one restaurant.
JudgeRestaurant(r, fl) ==
    RomanticStep(
        ChildrenStep(
            AssignedSeatsStep(
                TouristicStep([remove |-> FALSE, restaurant |-> r], fl.touristic),
                fl.assigned_seats),
            fl.children),
        fl.romantic)

RECURSIVE RemoveAll(_, _)
\* for remove_res in restaurants_to_remove: possible_restaurants.remove(remove_res)
RemoveAll(seq, to_remove) ==
    IF to_remove = <<>> THEN seq
    ELSE RemoveAll(RemoveFirst(seq, Head(to_remove)), Tail(to_remove))

\* __reasoning_rules_filter; fl holds the four flags of the session.
reasoning_rules_filter(possible_restaurants, fl) ==
    LET judged == [i \in 1..Len(possible_restaurants) |->
                      JudgeRestaurant(possible_restaurants[i], fl)]
        \* the rows as left by the loop (justifications written in place)
        annotated == [i \in 1..Len(possible_restaurants) |-> judged[i].restaurant]
        restaurants_to_remove ==
            SelectSeqBy(annotated, {i \in 1..Len(possible_restaurants) : judged[i].remove})
    IN RemoveAll(annotated, restaurants_to_remove)

\* ------------------------------------------------------------- session
VARIABLES
    \* behaviour configuration (config.json) and the debug switch
    confirm_preferences, allow_restart, informal_utterances, random_order,
    debug_mode,
    \* fields of dialogAgent
    area, price, food, restaurants, sugg_restaurant,
    pending_slot, pending_value, pending_state, pending_prompt,
    pending_message, pending_queue,
    romantic, children, assigned_seats, touristic,
    prefference_order,
    \* locals of start_dialog: the state and the message returned by the
    \* last turn
    state, system_utterance,
    \* number of iterations of the loop made so far
    turns,
    \* history: the rule that answered the last turn, how its act was
    \* decided, and the slot it committed (None if none)
    last,
    \* the argument and the result of a call of __reasoning_rules_filter
    \* made on its own (FilterSpec); empty in the dialog specifications
    filter_input, filter_output,
    \* the argument of a call of extract_keywords made on its own
    \* (ExtractSpec) and the locals it returned with; empty in the other
    \* specifications
    extract_input, extraction,
    \* the constructor: what it finds at config.json, and how far it got
    \* (pending, done, or raised when an exception leaves __init__)
    config_file, construction

config == <<confirm_preferences, allow_restart, informal_utterances,
            random_order, debug_mode>>
session == <<area, price, food, restaurants, sugg_restaurant,
             pending_slot, pending_value, pending_state, pending_prompt,
             pending_message, pending_queue,
             romantic, children, assigned_seats, touristic, prefference_order>>
calls == <<filter_input, filter_output, extract_input, extraction>>
boot == <<config_file, construction>>
vars == <<config, session, state, system_utterance, turns, last, calls, boot>>

\* The session as one record, as the handler reads and writes it.
Self ==
    [area |-> area, price |-> price, food |-> food,
     restaurants |-> restaurants, sugg_restaurant |-> sugg_restaurant,
     pending_slot |-> pending_slot, pending_value |-> pending_value,
     pending_state |-> pending_state, pending_prompt |-> pending_prompt,
     pending_message |-> pending_message, pending_queue |-> pending_queue,
     romantic |-> romantic, children |-> children,
     assigned_seats |-> assigned_seats, touristic |-> touristic,
     prefference_order |-> prefference_order]

\* ----------------------------------------------------------- utterances
\* What the handler reads of an utterance: the classifier's label, the
\* substring and word tests it makes, and the result of extract_keywords.
\* extract_keywords gives, per slot, a domain value, the wildcard, the
\* sentinel "unknown" (slot mentioned, no value resolved) or None.  The
\* sentinel is drawn for the price slot only, to keep the model small.
ExtractOutputs ==
    [area : AreaValues \cup {"dontcare", None},
     pricerange : PriceValues \cup {"dontcare", "unknown", None},
     food : FoodValues \cup {"dontcare", None}]

SingleSlotOutputs ==
    {out \in ExtractOutputs :
        Cardinality({k \in {"area", "pricerange", "food"} : out[k] # None}) = 1}

NoOutput == [area |-> None, pricerange |-> None, food |-> None]

FlagKeywords == {"romantic", "children", "assigned_seats", "touristic"}

Utterance(act, restart_phrase, yn, out, keywords, detail, is_exit) ==
    [present |-> TRUE, act |-> act, restart_phrase |-> restart_phrase,
     yn |-> yn, out |-> out, keywords |-> keywords, detail |-> detail,
     is_exit |-> is_exit]

\* utterance = None (the first call of the loop)
NoUtterance ==
    [present |-> FALSE, act |-> "", restart_phrase |-> FALSE, yn |-> "none",
     out |-> NoOutput, keywords |-> {}, detail |-> {}, is_exit |-> FALSE]

\* ------------------------------------------------- confirmation helpers
\* A result of the handler: the session it leaves, the pair it returns, and
\* the rule that produced the return value.
Result(s, next_state, response_utterance, rule) ==
    [s |-> s, next_state |-> next_state,
     response_utterance |-> response_utterance, rule |-> rule]

ConfirmMessage(slot, value) ==
    Msg("You chose {slot} {chosen_value}. Is that correct?",
        <<slot, IF value = "dontcare" THEN "don't care" ELSE value>>)

\* __confirm_each_preference
confirm_each_preference(s, slot, value, ask_state, prompt) ==
    Result([s EXCEPT !.pending_slot = slot, !.pending_value = value,
                     !.pending_state = ask_state, !.pending_prompt = prompt,
                     !.pending_message = ConfirmMessage(slot, value)],
           ConfirmPreference, ConfirmMessage(slot, value), "confirm")

\* Variant of __start_next_confirmation that pops the last entry (pop()).
start_next_confirmation_pops_last(s) ==
    IF s.pending_queue = <<>>
    THEN Result(s, None, NoMessage, "none")
    ELSE LET entry == s.pending_queue[Len(s.pending_queue)]
         IN confirm_each_preference(
                [s EXCEPT !.pending_queue = SubSeq(@, 1, Len(@) - 1)],
                entry.slot, entry.value, entry.ask_state, entry.prompt)

\* __start_next_confirmation; next_state None when the queue is empty
start_next_confirmation(s) ==
    IF s.pending_queue = <<>>
    THEN Result(s, None, NoMessage, "none")
    ELSE LET entry == Head(s.pending_queue)
         IN confirm_each_preference(
                [s EXCEPT !.pending_queue = Tail(@)],
                entry.slot, entry.value, entry.ask_state, entry.prompt)

ClearPending_keeps_slot(s) ==
    [s EXCEPT !.pending_state = None, !.pending_prompt = None,
              !.pending_message = NoMessage]

ClearPending(s) ==
    [s EXCEPT !.pending_slot = None, !.pending_value = None,
              !.pending_state = None, !.pending_prompt = None,
              !.pending_message = NoMessage]

\* Variant of __reset_dialog that forgets the alternatives list.
reset_dialog_keeps_alternatives(s) ==
    [ClearPending(s) EXCEPT !.area = None, !.price = None, !.food = None,
                            !.sugg_restaurant = <<>>]

\* __reset_dialog (state_history, which nothing reads, is not modelled)
reset_dialog(s) ==
    [ClearPending(s) EXCEPT !.area = None, !.price = None, !.food = None,
                            !.restaurants = <<>>, !.sugg_restaurant = <<>>]

WelcomeMessage ==
    IF informal_utterances THEN Lit(WELCOME_MESSAGE_INFORMAL) ELSE Lit(WELCOME_MESSAGE)

\* ------------------------------------------------------ transition rules
AllKnown(s) == s.area # None /\ s.price # None /\ s.food # None

\* random.shuffle: every ordering of the list
Shuffles(seq) ==
    {p \in [1..Len(seq) -> SeqToSet(seq)] : \A x \in SeqToSet(seq) : \E i \in 1..Len(seq) : p[i] = x}

\* Lines 459-465: drop the ask state of every slot that is known.
RemoveKnown(s) ==
    LET known == (IF s.area # None THEN {AskArea} ELSE {})
                 \cup (IF s.price # None THEN {AskPrice} ELSE {})
                 \cup (IF s.food # None THEN {AskFood} ELSE {})
        order == s.prefference_order
    IN [s EXCEPT !.prefference_order =
            SelectSeqBy(order, {i \in 1..Len(order) : order[i] \notin known})]

\* Lines 467-469: during slot filling the next ask state leads.
AssignCurrentState(s, current_state) ==
    IF current_state \in SlotFillingStates /\ Len(s.prefference_order) # 0
    THEN s.prefference_order[1]
    ELSE current_state

AskAreaMessage ==
    IF informal_utterances THEN Lit("Where about in town do you wanna eat?")
    ELSE Lit("What part of town do you have in mind?")
AskPriceMessage ==
    IF informal_utterances THEN Lit("How pricy do you want your meal to be?")
    ELSE Lit("How pricy would you like the restaurant to be?")
AskFoodMessage ==
    IF informal_utterances THEN Lit("What kind of food are you in the mood for?")
    ELSE Lit("What kind of food would you like?")
AskAdditionalMessage == Lit("Do you have any additional preferences?")
ChangePreferenceMessage ==
    IF informal_utterances
    THEN Lit("Sorry man, no restaurants meet your preference, do you wanna change the area, price range or food type?")
    ELSE Lit("There are no restaurants that meet your requirements. Would you like to change the area, pricerange or foodtype? And what would you like to change it to?")
NoAlternativeMessage ==
    IF informal_utterances THEN Lit("")
    ELSE Lit("There are no other restaurant left that meet your requirements. Would you like some infromation about the last suggested restaurant?")
FallbackMessage ==
    IF informal_utterances THEN Lit("Sorry man, didn't get that can you rephrase it?")
    ELSE Lit("I didn't understand, could you rephrase it in a different way?")

OnlyMatchMessage(r) ==
    IF informal_utterances
    THEN Msg("{name} is the only match. Do you want to know something about this restaurant?",
             <<r.restaurantname>>)
    ELSE Msg("{name} is the only restaurant that meet your requirements. {reasoning} Would you like some infromation about this restaurant?",
             <<r.restaurantname, r.reasoning_explained>>)
MatchMessage(r) ==
    IF informal_utterances
    THEN Msg("{name} is just what you. where looking for. {reasoning} Do you want to know something about this restaurant?",
             <<r.restaurantname, r.reasoning_explained>>)
    ELSE Msg("{name} is a restaurant that meet your requirements. {reasoning} Would you like some infromation about this restaurant or an alternative restaurant?",
             <<r.restaurantname, r.reasoning_explained>>)
AlternativeMessage(r, left) ==
    IF informal_utterances
    THEN Msg("{name} is {which} match. {reasoning} Do you want to know something about this restaurant?",
             <<r.restaurantname, IF left = 0 THEN "the only other" ELSE "another", r.reasoning_explained>>)
    ELSE Msg("{name} is {which} restaurant that meet your requirements. {reasoning} Would you like some infromation about this restaurant or a different restaurant?",
             <<r.restaurantname, IF left = 0 THEN "the only other" ELSE "another", r.reasoning_explained>>)
\* detail is the set of keyword groups with a word occurring in the utterance
\* (phone: phone, phonenumber, telephone, number; address: address, adress,
\* street; postcode: postal, postcode, zip, post, code).  The reply names the
\* fields of the suggested restaurant it gives.
DetailGroups == {"phone", "address", "postcode"}

RequestedFields_address_first(detail) ==
    IF "address" \in detail THEN "addr"
    ELSE IF "phone" \in detail THEN "phone"
    ELSE IF "postcode" \in detail THEN "postcode"
    ELSE "phone, addr, postcode"

RequestedFields(detail) ==
    IF "phone" \in detail THEN "phone"
    ELSE IF "address" \in detail THEN "addr"
    ELSE IF "postcode" \in detail THEN "postcode"
    ELSE "phone, addr, postcode"

InformationMessage(r, detail) ==
    Msg(IF informal_utterances THEN "informal detail" ELSE "formal detail",
        <<r.restaurantname, RequestedFields(detail)>>)
LastStatementMessage(r) ==
    IF informal_utterances
    THEN Msg("Restaurant {name} is great! You will love it!", <<r.restaurantname>>)
    ELSE Msg("Restaurant {name} is an outstanding restaurant.", <<r.restaurantname>>)

\* Variant that assigns each flag from the utterance (flag = keyword in
\* utterance) instead of only setting it.
ExtractAdditional_overwrites(s, utterance) ==
    [s EXCEPT !.romantic = ("romantic" \in utterance.keywords),
              !.children = ("children" \in utterance.keywords),
              !.assigned_seats = ("assigned_seats" \in utterance.keywords),
              !.touristic = ("touristic" \in utterance.keywords)]

\* Lines 543-555: the secondary preferences named in the utterance.
ExtractAdditional(s, utterance) ==
    [s EXCEPT !.romantic = @ \/ ("romantic" \in utterance.keywords),
              !.children = @ \/ ("children" \in utterance.keywords),
              !.assigned_seats = @ \/ ("assigned_seats" \in utterance.keywords),
              !.touristic = @ \/ ("touristic" \in utterance.keywords)]

Flags(s) ==
    [romantic |-> s.romantic, children |-> s.children,
     assigned_seats |-> s.assigned_seats, touristic |-> s.touristic]

LookupState_always_suggests(possible_restaurant_count) == SuggestRestaurant

\* Lines 565-598: the state after a lookup.
LookupState(possible_restaurant_count) ==
    IF possible_restaurant_count = 0 THEN ChangePreference ELSE SuggestRestaurant

ReadsAdditional_in_change(current_state) ==
    current_state \in {AskAdditional, ChangePreference}

\* Line 544: the secondary preferences are read from the utterance only in
\* the turn that answers the question about them.
ReadsAdditional(current_state) == current_state = AskAdditional

\* Variant of the lookup that leaves the suggestion among the alternatives.
LookupRule_keeps_suggestion(s, current_state, utterance) ==
    LET s1 == IF ReadsAdditional(current_state) THEN ExtractAdditional(s, utterance) ELSE s
        possible_restaurants == look_up_restaurants(s1.area, s1.price, s1.food)
        filtered == reasoning_rules_filter(possible_restaurants, Flags(s1))
        count == Len(filtered)
    IN IF count = 0
       THEN {Result(s1, LookupState(count), ChangePreferenceMessage, "change")}
       ELSE IF count = 1
       THEN {Result([s1 EXCEPT !.sugg_restaurant = <<filtered[1]>>],
                    LookupState(count), OnlyMatchMessage(filtered[1]), "suggest_one")}
       ELSE {Result([s1 EXCEPT !.sugg_restaurant = <<filtered[i]>>,
                               !.restaurants = filtered],
                    LookupState(count), MatchMessage(filtered[i]), "suggest_many")
             : i \in 1..count}

\* Lines 541-603: lookup, reasoning filter, and the suggestion.
LookupRule(s, current_state, utterance) ==
    LET s1 == IF ReadsAdditional(current_state) THEN ExtractAdditional(s, utterance) ELSE s
        possible_restaurants == look_up_restaurants(s1.area, s1.price, s1.food)
        filtered == reasoning_rules_filter(possible_restaurants, Flags(s1))
        count == Len(filtered)
    IN IF count = 0
       THEN {Result(s1, LookupState(count), ChangePreferenceMessage, "change")}
       ELSE IF count = 1
       THEN {Result([s1 EXCEPT !.sugg_restaurant = <<filtered[1]>>],
                    LookupState(count), OnlyMatchMessage(filtered[1]), "suggest_one")}
       ELSE {Result([s1 EXCEPT !.sugg_restaurant = <<filtered[i]>>,
                               !.restaurants = RemoveFirst(filtered, filtered[i])],
                    LookupState(count), MatchMessage(filtered[i]), "suggest_many")
             : i \in 1..count}

\* Lines 606-628: another suggestion from the alternatives list.
ReqaltsRule(s) ==
    IF Len(s.restaurants) >= 1
    THEN {LET left == RemoveFirst(s.restaurants, s.restaurants[i])
          IN Result([s EXCEPT !.sugg_restaurant = <<s.restaurants[i]>>,
                              !.restaurants = left],
                    SuggestRestaurant,
                    AlternativeMessage(s.restaurants[i], Len(left)), "reqalts_next")
          : i \in 1..Len(s.restaurants)}
    ELSE {Result(s, SuggestRestaurant, NoAlternativeMessage, "reqalts_none")}

\* Subscripting self.sugg_restaurant while it is None raises TypeError.
WithSuggestion(s, result) ==
    IF s.sugg_restaurant = <<>> THEN {Result(s, Raised, NoMessage, "raised")}
    ELSE {result}

\* Line 664: the guard of the rule that enters Last-Statement.
ClosesSuggestion_without_null(current_state, act) ==
    /\ current_state \in {SuggestRestaurant, ProvideInformation}
    /\ act \in {"confirm", "affirm"}

ClosesSuggestion(current_state, act) ==
    /\ current_state \in {SuggestRestaurant, ProvideInformation}
    /\ act \in {"confirm", "affirm", "null"}

\* Lines 476-691: the chain of transition rules.
TransitionRules(s, current_state, act, utterance) ==
    IF current_state = None /\ ~utterance.present
    THEN {Result([s EXCEPT !.prefference_order = order], Welcome, WelcomeMessage, "welcome")
          : order \in IF random_order THEN Shuffles(s.prefference_order)
                      ELSE {s.prefference_order}}
    ELSE IF current_state = AskArea /\ s.area = None
    THEN {Result(s, AskArea, AskAreaMessage, "ask")}
    ELSE IF current_state = AskPrice /\ s.price = None
    THEN {Result(s, AskPrice, AskPriceMessage, "ask")}
    ELSE IF current_state = AskFood /\ s.food = None
    THEN {Result(s, AskFood, AskFoodMessage, "ask")}
    ELSE IF current_state \in SlotFillingStates /\ AllKnown(s)
    THEN {Result(s, AskAdditional, AskAdditionalMessage, "ask_additional")}
    ELSE IF current_state \in SlotFillingStates \cup {AskAdditional, ChangePreference}
            /\ AllKnown(s)
    THEN LookupRule(s, current_state, utterance)
    ELSE IF current_state = SuggestRestaurant /\ act = "reqalts"
    THEN ReqaltsRule(s)
    ELSE IF current_state \in {SuggestRestaurant, ProvideInformation, LastStatement}
            /\ act = "request"
    THEN WithSuggestion(s,
            Result(s, ProvideInformation,
                   InformationMessage(s.sugg_restaurant[1], utterance.detail), "provide"))
    ELSE IF ClosesSuggestion(current_state, act)
    THEN WithSuggestion(s,
            Result(s, LastStatement, LastStatementMessage(s.sugg_restaurant[1]), "last"))
    ELSE IF current_state \in {ProvideInformation, LastStatement} /\ act = "bye"
    THEN {Result(s, Goodbye, NoMessage, "bye")}
    ELSE {Result(s, current_state, FallbackMessage, "fallback")}

\* Lines 694-697: the debugging exit.
DebugExit(result, utterance) ==
    IF utterance.present /\ utterance.is_exit /\ debug_mode /\ result.next_state # Raised
    THEN [result EXCEPT !.next_state = Goodbye,
                        !.response_utterance = Lit("Goodbye!"), !.rule = "exit"]
    ELSE result

\* Lines 459-704: slot-filling order, transition rules, debugging exit.
Proceed(s, current_state, act, utterance) ==
    LET s1 == RemoveKnown(s)
        current_state1 == AssignCurrentState(s1, current_state)
    IN {DebugExit(r, utterance) : r \in TransitionRules(s1, current_state1, act, utterance)}

\* ------------------------------------------------------------ the handler
\* Lines 295-312: the classifier's label, overridden by the restart phrases.
\* ("" is falsy, and contains no phrase.)
ClassifyAct(utterance) ==
    IF ~utterance.present THEN ""
    ELSE IF allow_restart /\ utterance.act # "restart" /\ utterance.restart_phrase
    THEN "restart"
    ELSE utterance.act

\* Lines 331-346: yes/no words when the label is neither confirm nor deny.
YesNoFallback(current_state, act, utterance) ==
    IF confirm_preferences /\ current_state = ConfirmPreference /\ utterance.present
       /\ act \notin (confirm_intents \cup deny_intents)
    THEN IF utterance.yn = "yes" THEN "confirm"
         ELSE IF utterance.yn = "no" THEN "deny"
         ELSE act
    ELSE act

\* setattr(self, slot, value)
SetSlot(s, slot, value) ==
    IF slot = "area" THEN [s EXCEPT !.area = value]
    ELSE IF slot = "price" THEN [s EXCEPT !.price = value]
    ELSE [s EXCEPT !.food = value]

OrElse(x, y) == IF x # None THEN x ELSE y

AreaEntry(value) ==
    [slot |-> "area", value |-> value, ask_state |-> AskArea,
     prompt |-> "What part of town do you have in mind?"]
PriceEntry(value) ==
    [slot |-> "price", value |-> value, ask_state |-> AskPrice,
     prompt |-> "How pricy would you like the restaurant to be?"]
FoodEntry(value) ==
    [slot |-> "food", value |-> value, ask_state |-> AskFood,
     prompt |-> "What kind of food would you like?"]

\* Variant of the acceptance test that takes a wildcard in every state.
Accepted_anywhere(value, current_state, ask_state) ==
    value # None

\* Lines 405, 417, 429: a value is taken unless it is a wildcard given
\* outside the slot's own ask state.
Accepted(value, current_state, ask_state) ==
    value # None
    /\ ((value = "dontcare" /\ current_state = ask_state) \/ value # "dontcare")

\* Lines 404-438 with confirmation required: the captured entries, in order.
CapturedEntries(output, current_state) ==
    (IF Accepted(output.area, current_state, AskArea)
        THEN <<AreaEntry(output.area)>> ELSE <<>>)
    \o (IF Accepted(output.pricerange, current_state, AskPrice)
        THEN <<PriceEntry(output.pricerange)>> ELSE <<>>)
    \o (IF Accepted(output.food, current_state, AskFood)
        THEN <<FoodEntry(output.food)>> ELSE <<>>)

\* Lines 404-438 without confirmation: the values are stored at once.
ApplyOutput(s, output, current_state) ==
    [s EXCEPT !.area = IF Accepted(output.area, current_state, AskArea)
                       THEN output.area ELSE @,
              !.price = IF Accepted(output.pricerange, current_state, AskPrice)
                        THEN output.pricerange ELSE @,
              !.food = IF Accepted(output.food, current_state, AskFood)
                       THEN output.food ELSE @]

\* Variant that always asks the generic question.
PendingMessageOr_generic(s) ==
    Lit("Please answer yes or no so I can confirm.")

\* self.pending_message or "Please answer yes or no so I can confirm."
PendingMessageOr(s) ==
    IF s.pending_message # NoMessage THEN s.pending_message
    ELSE Lit("Please answer yes or no so I can confirm.")

\* Line 397: when the slot extractor runs.
RunsExtractor(current_state, act) ==
    act = "inform"
    \/ (act \in {"request", "reqalts"} /\ current_state \in SlotFillingStates)

\* Lines 397-452: slot extraction, then the rest of the handler unless the
\* captured values go to confirmation.
ExtractStage(s, current_state, act, utterance) ==
    IF RunsExtractor(current_state, act)
    THEN LET output == utterance.out
             captured_entries == CapturedEntries(output, current_state)
         IN IF confirm_preferences
            THEN IF captured_entries # <<>>
                 THEN LET s1 == [s EXCEPT !.pending_queue = @ \o captured_entries]
                      IN IF s1.pending_slot = None
                         THEN {[start_next_confirmation(s1) EXCEPT !.rule = "capture"]}
                         ELSE {Result(s1, ConfirmPreference,
                                      PendingMessageOr(s1), "capture_queued")}
                 ELSE Proceed(s, current_state, act, utterance)
            ELSE Proceed(ApplyOutput(s, output, current_state),
                         current_state, act, utterance)
    ELSE Proceed(s, current_state, act, utterance)

\* Variant of the deny branch that forgets to clear the queue.
DenyPending_keeps_queue(s) ==
    Result(ClearPending(s),
           OrElse(s.pending_state, Welcome),
           Lit(OrElse(s.pending_prompt, "Could you repeat that preference?")),
           "deny")

\* Lines 375-387: a denied confirmation.
DenyPending(s) ==
    Result([ClearPending(s) EXCEPT !.pending_queue = <<>>],
           OrElse(s.pending_state, Welcome),
           Lit(OrElse(s.pending_prompt, "Could you repeat that preference?")),
           "deny")

\* Lines 348-393: the answer to a pending confirmation.
ConfirmStage(s, current_state, act, utterance) ==
    IF confirm_preferences /\ current_state = ConfirmPreference
    THEN IF s.pending_slot = None
         THEN ExtractStage(s, OrElse(s.pending_state, current_state), act, utterance)
         ELSE IF act \in confirm_intents
         THEN LET resolved_state == OrElse(s.pending_state, current_state)
                  s1 == ClearPending(SetSlot(s, s.pending_slot, s.pending_value))
                  next == start_next_confirmation(s1)
              IN IF next.next_state # None
                 THEN {[next EXCEPT !.rule = "confirm_next"]}
                 ELSE ExtractStage(s1, resolved_state, "", utterance)
         ELSE IF act \in deny_intents
         THEN {DenyPending(s)}
         ELSE {Result(s, ConfirmPreference, PendingMessageOr(s), "reask")}
    ELSE ExtractStage(s, current_state, act, utterance)

\* __state_transition: every (session, next_state, response_utterance) the
\* call can end with (the random choices make it a set).
state_transition(s, current_state, utterance) ==
    LET classified_dialog_act == ClassifyAct(utterance)
    IN IF allow_restart /\ classified_dialog_act = "restart"
       THEN {Result(reset_dialog(s), Welcome, WelcomeMessage, "restart")}
       ELSE ConfirmStage(s, current_state,
                         YesNoFallback(current_state, classified_dialog_act, utterance),
                         utterance)

\* ------------------------------------------------------------ behaviours
\* The utterances a user turn is drawn from.  Each family varies the
\* features one kind of rule reads and leaves the others at their default.
PlainUtterance(act) == Utterance(act, FALSE, "none", NoOutput, {}, {}, FALSE)

KeywordSets == {{"romantic"}, {"touristic"}, {"children"}, {"romantic", "assigned_seats"}}

Utterances ==
    {PlainUtterance(act) : act \in DialogActs}
    \cup {Utterance("inform", FALSE, "none", out, {}, {}, FALSE)
          : out \in ExtractOutputs}
    \cup {Utterance(act, FALSE, "none", out, {}, {}, FALSE)
          : act \in {"request", "reqalts"}, out \in SingleSlotOutputs}
    \cup {Utterance(act, TRUE, "none", NoOutput, {}, {}, FALSE)
          : act \in {"inform", "null"}}
    \cup {Utterance(act, FALSE, yn, NoOutput, {}, {}, FALSE)
          : act \in {"inform", "null"}, yn \in {"yes", "no"}}
    \cup {Utterance("null", FALSE, "none", NoOutput, kw, {}, FALSE)
          : kw \in KeywordSets}
    \cup {Utterance("request", FALSE, "none", NoOutput, {}, detail, FALSE)
          : detail \in (SUBSET DetailGroups) \ {{}}}
    \cup {Utterance(act, FALSE, "none", NoOutput, {}, {}, TRUE)
          : act \in {"inform", "null"}}

\* ------------------------------------------------------------ construction
\* Lines 28-31: the keys read from config.json.
ConfigKeys == {"confirm", "restart", "informal", "random"}

\* What the constructor can find at config.json: no file; a file that cannot
\* be opened or read (OSError); bytes that are not UTF-8 (UnicodeDecodeError);
\* text that is not JSON (JSONDecodeError); a JSON value that is not an
\* object; an object giving each key a JSON boolean or leaving it out.
Absent == "absent"
JsonObjects == [ConfigKeys -> {Absent, "true", "false"}]
NonObjectValues == {"array", "string", "number", "boolean", "null"}
ConfigFiles ==
    {[kind |-> k, value |-> <<>>] : k \in {"missing", "unreadable", "not_utf8", "invalid_json"}}
    \cup {[kind |-> "value", value |-> <<v>>] : v \in NonObjectValues}
    \cup {[kind |-> "object", value |-> o] : o \in JsonObjects}

AllFalse == [k \in ConfigKeys |-> FALSE]

\* config_data.get(key, False), on the parsed object
Get(config_data, key) ==
    IF config_data[key] = Absent THEN FALSE ELSE config_data[key] = "true"

\* Lines 32-50: the flags the constructor computes, or the exception that
\* leaves it.  Only JSONDecodeError and OSError are caught.
LoadConfig(file) ==
    IF file.kind = "missing"
    THEN [outcome |-> "done", flags |-> AllFalse]
    ELSE IF file.kind \in {"unreadable", "invalid_json"}
    THEN [outcome |-> "done", flags |-> AllFalse]
    ELSE IF file.kind = "not_utf8"
    THEN [outcome |-> "raised", flags |-> AllFalse]
    ELSE IF file.kind = "value"
    THEN [outcome |-> "raised", flags |-> AllFalse]
    ELSE [outcome |-> "done",
          flags |-> [k \in ConfigKeys |-> Get(file.value, k)]]

\* The configurations a session is created with: the confirmation and the
\* restart toggle vary freely; informal phrasing, random order and the debug
\* switch are all off or all on.
Configurations ==
    {c \in [confirm : BOOLEAN, restart : BOOLEAN, informal : BOOLEAN,
            random : BOOLEAN, debug : BOOLEAN] :
        c.informal = c.random /\ c.random = c.debug}

Init ==
    /\ \E c \in Configurations :
          /\ confirm_preferences = c.confirm
          /\ allow_restart = c.restart
          /\ informal_utterances = c.informal
          /\ random_order = c.random
          /\ debug_mode = c.debug
          /\ config_file = [kind |-> "object",
                            value |-> [k \in ConfigKeys |->
                                         IF (IF k = "confirm" THEN c.confirm
                                             ELSE IF k = "restart" THEN c.restart
                                             ELSE IF k = "informal" THEN c.informal
                                             ELSE c.random)
                                         THEN "true" ELSE "false"]]
    /\ construction = "done"
    /\ area = None /\ price = None /\ food = None
    /\ restaurants = <<>>
    /\ sugg_restaurant = <<>>
    /\ pending_slot = None /\ pending_value = None /\ pending_state = None
    /\ pending_prompt = None /\ pending_message = NoMessage
    /\ pending_queue = <<>>
    /\ romantic = FALSE /\ children = FALSE
    /\ assigned_seats = FALSE /\ touristic = FALSE
    /\ prefference_order = <<AskArea, AskPrice, AskFood>>
    /\ state = None
    /\ system_utterance = NoMessage
    /\ turns = 0
    /\ last = [rule |-> "init", via |-> "label", confirmed |-> None, captured |-> <<>>]
    /\ filter_input = <<>> /\ filter_output = <<>>
    /\ extract_input = "" /\ extraction = <<>>

\* The act after the restart-phrase and the yes/no-word fallbacks.
EffectiveAct(current_state, utterance) ==
    LET act0 == ClassifyAct(utterance)
    IN IF allow_restart /\ act0 = "restart" THEN act0
       ELSE YesNoFallback(current_state, act0, utterance)

\* How the act the rules saw was decided: by the classifier's label, by a
\* restart phrase, or by a yes/no word.
Via(current_state, utterance) ==
    LET act0 == ClassifyAct(utterance)
    IN IF act0 # utterance.act THEN "phrase"
       ELSE IF YesNoFallback(current_state, act0, utterance) # act0 THEN "word"
       ELSE "label"

\* The turn commits the pending value (line 356).
Commits(s, current_state, utterance) ==
    LET act0 == ClassifyAct(utterance)
    IN /\ ~(allow_restart /\ act0 = "restart")
       /\ confirm_preferences /\ current_state = ConfirmPreference
       /\ s.pending_slot # None
       /\ YesNoFallback(current_state, act0, utterance) \in confirm_intents

\* The (slot, value) pairs the turn appended to the queue (line 441), in
\* order; empty when the turn captured nothing.
Captured(r, current_state, utterance) ==
    IF r.rule \in {"capture", "capture_queued"}
    THEN LET entries == CapturedEntries(utterance.out, current_state)
         IN [i \in 1..Len(entries) |->
                [slot |-> entries[i].slot, value |-> entries[i].value]]
    ELSE <<>>

\* One iteration of the loop of start_dialog with the result r of the call.
Iterate(r, utterance) ==
    /\ area' = r.s.area /\ price' = r.s.price /\ food' = r.s.food
    /\ restaurants' = r.s.restaurants
    /\ sugg_restaurant' = r.s.sugg_restaurant
    /\ pending_slot' = r.s.pending_slot /\ pending_value' = r.s.pending_value
    /\ pending_state' = r.s.pending_state /\ pending_prompt' = r.s.pending_prompt
    /\ pending_message' = r.s.pending_message
    /\ pending_queue' = r.s.pending_queue
    /\ romantic' = r.s.romantic /\ children' = r.s.children
    /\ assigned_seats' = r.s.assigned_seats /\ touristic' = r.s.touristic
    /\ prefference_order' = r.s.prefference_order
    /\ state' = r.next_state
    /\ system_utterance' = r.response_utterance
    /\ turns' = turns + 1
    /\ last' = [rule |-> r.rule,
                via |-> Via(state, utterance),
                confirmed |-> IF Commits(Self, state, utterance)
                              THEN pending_slot ELSE None,
                captured |-> Captured(r, state, utterance)]
    /\ UNCHANGED <<config, calls, boot>>

\* The first iteration: state = None, user_input = None.
FirstTurn ==
    /\ state = None
    /\ \E r \in state_transition(Self, state, NoUtterance) : Iterate(r, NoUtterance)

\* Variant of the loop that does not stop at Goodbye (while True).
UserTurn_after_goodbye ==
    /\ state \notin {None, Raised}
    /\ turns < MaxTurns
    /\ \E utterance \in Utterances :
          \E r \in state_transition(Self, state, utterance) : Iterate(r, utterance)

\* A later iteration: the user's input is read and handled.
UserTurn ==
    /\ state \notin {None, Goodbye, Raised}
    /\ turns < MaxTurns
    /\ \E utterance \in Utterances :
          \E r \in state_transition(Self, state, utterance) : Iterate(r, utterance)

Next == FirstTurn \/ UserTurn

Spec == Init /\ [][Next]_vars

\* ---------------------------------------------------------------- claims
\* The loop is still running: the handler will be called again.
Live == state \notin {None, Goodbye, Raised}

\* The utterance carries a restart trigger: the label restart, or one of
\* the restart phrases as a substring.
RestartTrigger(u) == u.act = "restart" \/ u.restart_phrase

\* The message of the first turn of a session with this configuration.
InitialGreetings ==
    {r.response_utterance : r \in state_transition(Self, None, NoUtterance)}

\* C1: with restarts allowed, a turn that carries a restart trigger (in
\* particular one taken after the slots were filled and a suggestion was
\* made) leaves area, price and food unset, the suggestion and the
\* alternatives list empty, returns Welcome, and its message is the initial
\* greeting.
C1_RestartResetsFully ==
    (allow_restart /\ Live) =>
        \A u \in Utterances : RestartTrigger(u) =>
            \A r \in state_transition(Self, state, u) :
                /\ r.s.area = None /\ r.s.price = None /\ r.s.food = None
                /\ r.s.sugg_restaurant = <<>>
                /\ r.s.restaurants = <<>>
                /\ r.next_state = Welcome
                /\ r.response_utterance \in InitialGreetings

\* A restart phrase arrives after the slots were filled, a suggestion was
\* made and alternatives were kept, and the turn resets them.
C1_Witness ==
    /\ allow_restart /\ turns < MaxTurns
    /\ state = SuggestRestaurant /\ AllKnown(Self)
    /\ sugg_restaurant # <<>> /\ restaurants # <<>>
    /\ \E u \in Utterances :
          /\ u.restart_phrase /\ u.act # "restart"
          /\ \E r \in state_transition(Self, state, u) :
                r.next_state = Welcome /\ r.s.sugg_restaurant = <<>>
                /\ r.s.restaurants = <<>> /\ ~AllKnown(r.s)

\* C2: after any restart turn romantic, children, assigned_seats and
\* touristic are all unset.
C2_RestartClearsFlags ==
    last.rule = "restart" =>
        ~romantic /\ ~children /\ ~assigned_seats /\ ~touristic

\* C3: after a restart turn the active pending confirmation and the pending
\* queue are both empty.
C3_RestartClearsPending ==
    last.rule = "restart" =>
        pending_slot = None /\ pending_value = None /\ pending_queue = <<>>

\* The confirmations a session holds, the active one first: (slot, value).
PendingEntries(s) ==
    (IF s.pending_slot # None
     THEN <<[slot |-> s.pending_slot, value |-> s.pending_value]>> ELSE <<>>)
    \o [i \in 1..Len(s.pending_queue) |->
          [slot |-> s.pending_queue[i].slot, value |-> s.pending_queue[i].value]]

\* The key of a slot in the result of the extractor.
SlotKey(slot) == IF slot = "price" THEN "pricerange" ELSE slot

SlotValue(s, slot) ==
    IF slot = "area" THEN s.area ELSE IF slot = "price" THEN s.price ELSE s.food

AskStateOf(slot) ==
    IF slot = "area" THEN AskArea ELSE IF slot = "price" THEN AskPrice ELSE AskFood

\* The question of a slot's ask state (lines 500, 513, 526).
OriginalPrompt(slot) ==
    IF slot = "area" THEN Lit("What part of town do you have in mind?")
    ELSE IF slot = "price" THEN Lit("How pricy would you like the restaurant to be?")
    ELSE Lit("What kind of food would you like?")

\* A confirmation is pending and the turn is not a restart turn.
AnswersConfirmation(u) ==
    /\ confirm_preferences /\ state = ConfirmPreference /\ pending_slot # None
    /\ ~(allow_restart /\ RestartTrigger(u))

\* The utterance is a deny: by its label, or by a no-word when the label is
\* neither a confirm nor a deny (a yes-word goes first).
IsDeny(u) ==
    u.act \in {"deny", "negate"}
    \/ (u.act \notin {"confirm", "affirm", "deny", "negate"} /\ u.yn = "no")

IsConfirm(u) ==
    u.act \in {"confirm", "affirm"}
    \/ (u.act \notin {"confirm", "affirm", "deny", "negate"} /\ u.yn = "yes")

Slots == {"area", "price", "food"}

\* area before price before food
SlotRank(slot) == IF slot = "area" THEN 1 ELSE IF slot = "price" THEN 2 ELSE 3

InCaptureOrder(entries) ==
    \A i, j \in 1..Len(entries) :
        i < j => SlotRank(entries[i].slot) < SlotRank(entries[j].slot)

\* C6: one confirmation is active at a time, and the values captured from
\* one utterance are offered one at a time in capture order (area, price,
\* food): after the capturing turn the active confirmation and the queue
\* are that utterance's values in that order, and a queued value becomes
\* active only in the turn that confirms the one before it.
C6_OneAtATimeInCaptureOrder ==
    [][ /\ InCaptureOrder(last'.captured)
        /\ last'.captured # <<>> => PendingEntries(Self)' = last'.captured
        /\ (pending_slot' # None /\ last'.captured = <<>>
               /\ <<pending_slot', pending_value'>> # <<pending_slot, pending_value>>)
           => (/\ last'.confirmed # None /\ last'.confirmed = pending_slot
               /\ PendingEntries(Self)' = Tail(PendingEntries(Self)))
      ]_vars

\* C7: with confirmation required an extracted value is never applied
\* directly: outside a restart, a slot changes only in a turn that starts
\* in Confirm-Preference with a confirm act, to the value pending for that
\* slot; and the turn that captures values moves to Confirm-Preference
\* with the first captured value as the active confirmation.
C7_AppliedOnlyThroughConfirmation ==
    [][ confirm_preferences =>
          /\ \A slot \in Slots :
                (SlotValue(Self, slot)' # SlotValue(Self, slot) /\ last'.rule # "restart")
                => (/\ state = ConfirmPreference
                    /\ last'.confirmed = slot /\ pending_slot = slot
                    /\ SlotValue(Self, slot)' = pending_value)
          /\ last'.captured # <<>> =>
                (/\ state' = ConfirmPreference
                 /\ pending_slot' = last'.captured[1].slot
                 /\ pending_value' = last'.captured[1].value)
      ]_vars

DomainOf(slot) ==
    IF slot = "area" THEN AreaValues
    ELSE IF slot = "price" THEN PriceValues ELSE FoodValues

\* C8: in every reachable state each of area, price and food is a value of
\* its domain, the wildcard, or unset, and every value awaiting
\* confirmation (active or queued) is a value of its domain or the
\* wildcard: the extractor's "unknown" is never stored or queued.
C8_SlotsHoldDomainValues ==
    /\ \A slot \in Slots :
          SlotValue(Self, slot) \in DomainOf(slot) \cup {"dontcare", None}
    /\ \A i \in 1..Len(PendingEntries(Self)) :
          PendingEntries(Self)[i].value
              \in DomainOf(PendingEntries(Self)[i].slot) \cup {"dontcare"}

\* The entries of a slot among the active and the queued confirmations.
EntriesOf(s, slot) ==
    SelectSeq(PendingEntries(s), LAMBDA e : e.slot = slot)

\* The turn reaches the slot extractor with the state it was received in.
ExtractorRuns(u) ==
    /\ Live
    /\ ~(allow_restart /\ RestartTrigger(u))
    /\ ~(confirm_preferences /\ state = ConfirmPreference)
    /\ RunsExtractor(state, u.act)

\* C9: a wildcard extracted for a slot is accepted only when the utterance
\* was received in that slot's own ask state (there it is stored, or with
\* confirmation required queued); received in any other state it leaves
\* the slot and the confirmations held for that slot unchanged.
C9_WildcardOnlyInOwnAskState ==
    \A u \in Utterances : ExtractorRuns(u) =>
        \A slot \in Slots : u.out[SlotKey(slot)] = "dontcare" =>
            \A r \in state_transition(Self, state, u) :
                IF state = AskStateOf(slot)
                THEN IF confirm_preferences
                     THEN /\ SlotValue(r.s, slot) = SlotValue(Self, slot)
                          /\ EntriesOf(r.s, slot) =
                                Append(EntriesOf(Self, slot),
                                       [slot |-> slot, value |-> "dontcare"])
                     ELSE SlotValue(r.s, slot) = "dontcare"
                ELSE /\ SlotValue(r.s, slot) = SlotValue(Self, slot)
                     /\ EntriesOf(r.s, slot) = EntriesOf(Self, slot)

\* In Change-One-Preference, with the area set to a concrete value, an
\* inform whose extraction is a wildcard for the area leaves the area as it
\* was.
C9_Witness ==
    /\ state = ChangePreference /\ turns < MaxTurns /\ area \in AreaValues
    /\ \E u \in Utterances :
          /\ ExtractorRuns(u) /\ u.out.area = "dontcare"
          /\ \E r \in state_transition(Self, state, u) :
                r.s.area = area /\ r.s.pending_queue = pending_queue

\* The states in which rule 5.1 (lookup) can apply.
LookupStates == SlotFillingStates \cup {AskAdditional, ChangePreference}

\* C10: after a lookup over the three slots followed by the reasoning
\* filter, zero candidates give Change-One-Preference (never an error), one
\* candidate gives Suggest-Restaurant with it as the suggestion, several
\* give Suggest-Restaurant with a suggestion from the filtered set and the
\* alternatives equal to the filtered set without that suggestion.
C10_LookupOutcome ==
    (Live /\ state \in LookupStates) =>
        \A u \in Utterances :
            \A r \in state_transition(Self, state, u) :
                r.rule \in {"change", "suggest_one", "suggest_many"} =>
                    LET F == reasoning_rules_filter(
                                 look_up_restaurants(r.s.area, r.s.price, r.s.food),
                                 Flags(r.s))
                    IN /\ r.next_state # Raised
                       /\ Len(F) = 0 =>
                             r.next_state = ChangePreference
                       /\ Len(F) = 1 =>
                             (r.next_state = SuggestRestaurant
                              /\ r.s.sugg_restaurant = <<F[1]>>)
                       /\ Len(F) > 1 =>
                             (/\ r.next_state = SuggestRestaurant
                              /\ Len(r.s.sugg_restaurant) = 1
                              /\ r.s.sugg_restaurant[1] \in SeqToSet(F)
                              /\ Len(r.s.restaurants) = Len(F) - 1
                              /\ SeqToSet(r.s.restaurants)
                                    = SeqToSet(F) \ {r.s.sugg_restaurant[1]})

\* A lookup has just found several candidates: one is suggested and the
\* others are kept as alternatives.
C10_Witness ==
    /\ last.rule = "suggest_many" /\ state = SuggestRestaurant
    /\ sugg_restaurant # <<>> /\ restaurants # <<>>
    /\ sugg_restaurant[1] \notin SeqToSet(restaurants)

\* A reqalts act received in Suggest-Restaurant that is not a restart.
AsksAlternative(u) ==
    /\ state = SuggestRestaurant /\ u.act = "reqalts"
    /\ ~(allow_restart /\ RestartTrigger(u))

\* C11: in Suggest-Restaurant a reqalts act with a non-empty alternatives
\* list makes one member of the list the suggestion and removes it from the
\* list, which shrinks by exactly one; with an empty list the state stays
\* Suggest-Restaurant, the suggestion is unchanged and an explicit message
\* that no other restaurant is left is emitted.
C11_ReqaltsPopsAlternative ==
    \A u \in Utterances : AsksAlternative(u) =>
        \A r \in state_transition(Self, state, u) :
            /\ r.next_state = SuggestRestaurant
            /\ IF restaurants # <<>>
               THEN /\ Len(r.s.sugg_restaurant) = 1
                    /\ r.s.sugg_restaurant[1] \in SeqToSet(restaurants)
                    /\ Len(r.s.restaurants) = Len(restaurants) - 1
                    /\ SeqToSet(r.s.restaurants)
                          = SeqToSet(restaurants) \ {r.s.sugg_restaurant[1]}
               ELSE /\ r.s.sugg_restaurant = sugg_restaurant
                    /\ r.s.restaurants = <<>>
                    /\ r.response_utterance \notin {NoMessage, Lit("")}

\* The states before a suggestion exists: Goodbye is entered only from
\* Provide-Information or Last-Statement (line 676), these only from
\* Suggest-Restaurant, and Suggest-Restaurant only through a lookup that
\* leaves a candidate (lines 577-603).
BeforeSuggestion ==
    SlotFillingStates \cup {AskAdditional, ChangePreference, ConfirmPreference}

\* No row of the table passes the rules of the flags fl.
NoCandidatePasses(fl) == reasoning_rules_filter(restaurant_info, fl) = <<>>

\* The session s in state st has no suggestion yet, its flags exclude every
\* restaurant, and the debugging exit is off.
DeadEnd(s, st) ==
    ~debug_mode /\ st \in BeforeSuggestion /\ NoCandidatePasses(Flags(s))

\* No turn leaves the dead end: whatever the user says, the session stays
\* before a suggestion with flags that exclude every restaurant.
DeadEndIsClosed ==
    DeadEnd(Self, state) =>
        \A u \in Utterances :
            \A r \in state_transition(Self, state, u) : DeadEnd(r.s, r.next_state)

\* C12: from every reachable session state, under every configuration and
\* whatever flags have been set, some finite sequence of utterances ends in
\* Goodbye; so no reachable state lies in the dead end, from which (by
\* DeadEndIsClosed) no sequence of utterances reaches Goodbye.
C12_GoodbyeReachable ==
    Live => ~DeadEnd(Self, state)

\* A bye act received in Provide-Information or Last-Statement that is not
\* a restart.
SaysBye(u) ==
    /\ state \in {ProvideInformation, LastStatement} /\ u.act = "bye"
    /\ ~(allow_restart /\ RestartTrigger(u))

\* C13: a bye act received in Provide-Information or Last-Statement moves
\* to Goodbye with no system message; Goodbye is terminal: the loop takes
\* no further turn from it, so nothing is emitted after it.
C13_ByeEndsTheDialog ==
    /\ [](\A u \in Utterances : SaysBye(u) =>
             \A r \in state_transition(Self, state, u) :
                 r.next_state = Goodbye /\ r.response_utterance = NoMessage)
    /\ [](state = Goodbye /\ last.rule = "bye" => system_utterance = NoMessage)
    /\ [][state # Goodbye]_vars

\* The dialog has ended with a bye.
C13_Witness ==
    state = Goodbye /\ last.rule = "bye" /\ sugg_restaurant # <<>>

\* ------------------------------------------------- longer guided dialogs
\* A second specification for what needs more turns than Spec allows:
\* confirmation required and restarts allowed, formal phrasing, fixed order,
\* and a user who draws from a few utterances.
DeepTurns == 11

GuidedUtterances ==
    { Utterance("inform", FALSE, "none",
                [area |-> "north", pricerange |-> "cheap", food |-> "thai"],
                {}, {}, FALSE),
      Utterance("inform", FALSE, "none",
                [area |-> "north", pricerange |-> None, food |-> None],
                {}, {}, FALSE),
      Utterance("inform", FALSE, "none",
                [area |-> "north", pricerange |-> "cheap", food |-> None],
                {}, {}, FALSE),
      Utterance("inform", FALSE, "none",
                [area |-> None, pricerange |-> None, food |-> "dontcare"],
                {}, {}, FALSE),
      Utterance("null", FALSE, "none", NoOutput, {"touristic", "romantic"},
                {}, FALSE),
      Utterance("null", FALSE, "yes", NoOutput, {}, {}, FALSE),
      PlainUtterance("deny"),
      PlainUtterance("restart"),
      PlainUtterance("null"),
      PlainUtterance("reqalts"),
      PlainUtterance("bye") }

DeepInit ==
    Init /\ confirm_preferences /\ allow_restart /\ ~debug_mode

\* An iteration of the loop with an utterance of the guided user.
GuidedTurn ==
    /\ state \notin {None, Goodbye, Raised}
    /\ turns < DeepTurns
    /\ \E utterance \in GuidedUtterances :
          \E r \in state_transition(Self, state, utterance) : Iterate(r, utterance)

DeepNext == FirstTurn \/ GuidedTurn

DeepSpec == DeepInit /\ [][DeepNext]_vars

\* C14: whenever a turn matches no transition rule and the fallback message
\* is emitted, the state the turn returns is the state it started in.
C14_FallbackKeepsState ==
    [][system_utterance' = FallbackMessage => state' = state]_vars

\* C15: the secondary-preference flags are monotone: once romantic,
\* children, assigned_seats or touristic is set, no turn other than a
\* restart turn unsets it.
C15_FlagsAreMonotone ==
    [][ last'.rule # "restart" =>
          /\ romantic => romantic'
          /\ children => children'
          /\ assigned_seats => assigned_seats'
          /\ touristic => touristic'
      ]_vars

\* A flag set in Ask-Additional-Preferences is still set two turns later.
C15_Witness ==
    /\ touristic /\ state \in {ProvideInformation, LastStatement}
    /\ last.rule \in {"provide", "last"}

\* ------------------------------------------- the reasoning filter alone
\* A specification of one call of __reasoning_rules_filter: the candidates
\* are a list of distinct rows as a lookup returns them, the flags are any
\* four booleans.
MaxCandidates == 2

\* What the touristic rule reads (pricerange, food_quality, food).
TouristicProfiles ==
    { <<"cheap", "good", "thai">>, <<"cheap", "good", "romanian">>,
      <<"expensive", "good", "thai">>, <<"cheap", "mediocre", "thai">> }

\* Candidate rows: every touristic profile with every crowdedness and
\* length of stay the other rules tell apart.
CandidateRows ==
    { Row(t[1] \o "-" \o t[2] \o "-" \o t[3] \o "-" \o c \o "-" \o l,
          "north", t[1], t[3], t[2], c, l)
      : t \in TouristicProfiles, c \in {"busy", "low"}, l \in {"long", "short"} }

CandidateLists ==
    UNION { {q \in [1..n -> CandidateRows] : \A i, j \in 1..n : i # j => q[i] # q[j]}
            : n \in 0..MaxCandidates }

FilterInit ==
    /\ confirm_preferences = FALSE /\ allow_restart = FALSE
    /\ informal_utterances = FALSE /\ random_order = FALSE /\ debug_mode = FALSE
    /\ area = None /\ price = None /\ food = None
    /\ restaurants = <<>>
    /\ sugg_restaurant = <<>>
    /\ pending_slot = None /\ pending_value = None /\ pending_state = None
    /\ pending_prompt = None /\ pending_message = NoMessage
    /\ pending_queue = <<>>
    /\ romantic \in BOOLEAN /\ children \in BOOLEAN
    /\ assigned_seats \in BOOLEAN /\ touristic \in BOOLEAN
    /\ prefference_order = <<AskArea, AskPrice, AskFood>>
    /\ state = None
    /\ system_utterance = NoMessage
    /\ turns = 0
    /\ last = [rule |-> "init", via |-> "label", confirmed |-> None, captured |-> <<>>]
    /\ filter_input \in CandidateLists
    /\ filter_output = <<>>
    /\ extract_input = "" /\ extraction = <<>>
    /\ config_file = [kind |-> "missing", value |-> <<>>]
    /\ construction = "done"

\* The call: filtered_possible_restaurants =
\* self.__reasoning_rules_filter(possible_restaurants)
FilterCall ==
    /\ last.rule = "init"
    /\ filter_output' = reasoning_rules_filter(filter_input, Flags(Self))
    /\ last' = [last EXCEPT !.rule = "filter"]
    /\ UNCHANGED <<config, session, state, system_utterance, turns, filter_input,
                   extract_input, extraction, boot>>

FilterSpec == FilterInit /\ [][FilterCall]_vars

Filtered == last.rule = "filter"

\* The rules of the active flags, stated on the attributes of a row.
PassesActiveRules(r) ==
    /\ touristic => (r.pricerange = "cheap" /\ r.food_quality = "good"
                     /\ r.food # "romanian")
    /\ assigned_seats => r.crowdedness = "busy"
    /\ children => r.length_of_stay # "long"
    /\ romantic => (r.length_of_stay = "long" /\ r.crowdedness # "busy")

\* A row without its justification.
Bare(r) == [r EXCEPT !.reasoning_explained = <<>>]

\* C16: the reasoning filter keeps a candidate if and only if it passes the
\* rule of every active flag, the survivors keep their input order, and with
\* no active flag the list is returned unchanged.
C16_FilterKeepsExactlyPassing ==
    Filtered =>
        /\ [i \in 1..Len(filter_output) |-> Bare(filter_output[i])]
              = SelectSeq(filter_input, PassesActiveRules)
        /\ (~touristic /\ ~assigned_seats /\ ~children /\ ~romantic)
              => filter_output = filter_input

\* Two flags are active; of two candidates the first is removed and the
\* second kept.
C16_Witness ==
    /\ Filtered /\ touristic /\ romantic /\ ~children /\ ~assigned_seats
    /\ Len(filter_input) = 2 /\ Len(filter_output) = 1
    /\ Bare(filter_output[1]) = filter_input[2]

OnlyTouristic ==
    [romantic |-> FALSE, children |-> FALSE, assigned_seats |-> FALSE,
     touristic |-> TRUE]

\* The rows the session holds: the suggestion and the alternatives.
HeldRows(s) == SeqToSet(s.sugg_restaurant) \cup SeqToSet(s.restaurants)

\* C17: with touristic active a candidate whose food is romanian is removed
\* by the reasoning filter even when it is cheap with good food, and such a
\* restaurant is never the suggestion nor among the alternatives.
C17_RomanianNeverTouristic ==
    /\ \A row \in SeqToSet(reasoning_rules_filter(restaurant_info, OnlyTouristic)) :
          row.food # "romanian"
    /\ touristic => \A row \in HeldRows(Self) : row.food # "romanian"

\* The filter leaves nothing of any candidate list when romantic and
\* assigned_seats are both active, whatever the other two flags.
RomanticWithSeatsIsEmpty ==
    \A cands \in CandidateLists : \A t, c \in BOOLEAN :
        reasoning_rules_filter(cands,
            [romantic |-> TRUE, children |-> c, assigned_seats |-> TRUE,
             touristic |-> t]) = <<>>

\* C18: when romantic and assigned_seats are both active the reasoning
\* filter returns the empty list for every candidate set, so every lookup
\* ends in Change-One-Preference.
C18_RomanticWithSeatsFindsNothing ==
    /\ RomanticWithSeatsIsEmpty
    /\ (Live /\ state \in LookupStates) =>
          \A u \in Utterances :
              \A r \in state_transition(Self, state, u) :
                  (r.rule \in {"change", "suggest_one", "suggest_many"}
                   /\ r.s.romantic /\ r.s.assigned_seats)
                  => r.next_state = ChangePreference

\* A lookup that matched restaurants has ended in Change-One-Preference
\* because romantic and assigned_seats are both active.
C18_Witness ==
    /\ state = ChangePreference /\ last.rule = "change"
    /\ romantic /\ assigned_seats
    /\ look_up_restaurants(area, price, food) # <<>>

\* The active flags in the order of the four blocks of the filter.
ActiveFlagsInOrder ==
    (IF touristic THEN <<"touristic">> ELSE <<>>)
    \o (IF assigned_seats THEN <<"assigned_seats">> ELSE <<>>)
    \o (IF children THEN <<"children">> ELSE <<>>)
    \o (IF romantic THEN <<"romantic">> ELSE <<>>)

\* C19: every candidate that survives the reasoning filter carries a
\* justification of exactly one clause per active flag, in the order
\* touristic, assigned_seats, children, romantic (none with no active
\* flag), and no removed candidate is part of the output.
C19_JustificationPerActiveFlag ==
    Filtered =>
        /\ \A i \in 1..Len(filter_output) :
              filter_output[i].reasoning_explained = ActiveFlagsInOrder
        /\ \A i \in 1..Len(filter_input) :
              ~PassesActiveRules(filter_input[i]) =>
                  \A k \in 1..Len(filter_output) :
                      Bare(filter_output[k]) # filter_input[i]

\* With touristic and children active one of two candidates is removed and
\* the other carries the two clauses in order.
C19_Witness ==
    /\ Filtered /\ touristic /\ children /\ ~assigned_seats /\ ~romantic
    /\ Len(filter_input) = 2 /\ Len(filter_output) = 1
    /\ filter_output[1].reasoning_explained = <<"touristic", "children">>

\* C20: while a confirmation is pending no other transition proceeds: in
\* Confirm-Preference every act that is neither a confirm nor a deny (after
\* the yes/no fallback) and is not a restart returns Confirm-Preference
\* with the pending confirmation message, and leaves the whole session
\* (slots, pending fields, queue, flags, suggestion, alternatives)
\* unchanged, so nothing the utterance names is extracted.
C20_PendingConfirmationBlocks ==
    \A u \in Utterances :
        (AnswersConfirmation(u) /\ ~IsConfirm(u) /\ ~IsDeny(u)) =>
            \A r \in state_transition(Self, state, u) :
                /\ r.next_state = ConfirmPreference
                /\ r.response_utterance = pending_message
                /\ r.response_utterance = ConfirmMessage(pending_slot, pending_value)
                /\ r.s = Self

\* While the area awaits confirmation an inform naming a food is answered
\* with the same question and changes nothing.
C20_Witness ==
    /\ state = ConfirmPreference /\ pending_slot = "area" /\ turns < MaxTurns
    /\ \E u \in Utterances :
          /\ u.act = "inform" /\ u.out.food = "thai" /\ u.yn = "none"
          /\ \E r \in state_transition(Self, state, u) :
                r.next_state = ConfirmPreference /\ r.s = Self

\* ----------------------------------------------- details and last statement
\* A request act is received while a suggestion exists.
AsksDetails(u) ==
    /\ state \in {SuggestRestaurant, ProvideInformation, LastStatement}
    /\ sugg_restaurant # <<>>
    /\ u.act = "request"
    /\ ~(allow_restart /\ RestartTrigger(u))

\* The fields the reply to a request gives, by the keyword groups found.
FieldsFor(u) ==
    IF "phone" \in u.detail THEN "phone"
    ELSE IF "address" \in u.detail THEN "addr"
    ELSE IF "postcode" \in u.detail THEN "postcode"
    ELSE "phone, addr, postcode"

\* C21: a request act received while a suggestion exists (in
\* Suggest-Restaurant, Provide-Information or Last-Statement) moves to
\* Provide-Information and leaves the suggestion unchanged; the reply gives
\* the phone number if a phone keyword is in the utterance, else the address
\* if an address keyword is, else the postcode if a postcode keyword is,
\* else all three details.
C21_RequestGivesDetails ==
    \A u \in Utterances : AsksDetails(u) =>
        \A r \in state_transition(Self, state, u) :
            /\ r.next_state = ProvideInformation
            /\ r.s.sugg_restaurant = sugg_restaurant
            /\ r.response_utterance.args
                  = <<sugg_restaurant[1].restaurantname, FieldsFor(u)>>

\* A request naming an address and a postcode keyword is answered with the
\* address alone, in Last-Statement.
C21_Witness ==
    /\ state = LastStatement /\ sugg_restaurant # <<>>
    /\ \E u \in Utterances :
          /\ AsksDetails(u) /\ u.detail = {"address", "postcode"}
          /\ \E r \in state_transition(Self, state, u) :
                /\ r.next_state = ProvideInformation
                /\ r.response_utterance.args
                      = <<sugg_restaurant[1].restaurantname, "addr">>

\* The acts that close the suggestion, and the states they close it from.
ClosingActs == {"confirm", "affirm", "null"}
ClosingStates == {SuggestRestaurant, ProvideInformation}

\* A classified utterance that neither restarts the dialog nor is the
\* debugging exit word.
OrdinaryTurn(u) ==
    /\ ~(allow_restart /\ RestartTrigger(u))
    /\ ~(debug_mode /\ u.is_exit)

\* C22: a confirm, affirm or null act received in Suggest-Restaurant or
\* Provide-Information moves to Last-Statement, and no turn taken in another
\* state or with another act enters Last-Statement.
C22_LastStatementEntry ==
    \A u \in Utterances :
        \A r \in state_transition(Self, state, u) :
            /\ (state \in ClosingStates /\ u.act \in ClosingActs
                    /\ sugg_restaurant # <<>> /\ OrdinaryTurn(u))
                  => (r.next_state = LastStatement /\ r.rule = "last")
            /\ (r.next_state = LastStatement /\ state # LastStatement)
                  => (state \in ClosingStates /\ u.act \in ClosingActs)

\* Last-Statement has just been entered, with the message about the
\* suggested restaurant.
C22_Witness ==
    /\ state = LastStatement /\ last.rule = "last" /\ sugg_restaurant # <<>>
    /\ system_utterance = LastStatementMessage(sugg_restaurant[1])

\* ------------------------------------------------------- restart and exit
\* C23: an utterance classified as restart resets the session and returns
\* to Welcome from every non-terminal state, Confirm-Preference included,
\* whether or not restarts are allowed; only the restart phrases depend on
\* the toggle.
C23_RestartLabelAlwaysResets ==
    Live =>
        \A u \in Utterances : u.act = "restart" =>
            \A r \in state_transition(Self, state, u) :
                /\ r.next_state = Welcome
                /\ r.response_utterance \in InitialGreetings
                /\ r.s.area = None /\ r.s.price = None /\ r.s.food = None
                /\ r.s.sugg_restaurant = <<>>

\* ------------------------------------------------- creating the session
\* A specification of the constructor alone: it is handed any config.json
\* and either debug switch, computes the four flags, and stores them.
ConfigInit ==
    /\ confirm_preferences = FALSE /\ allow_restart = FALSE
    /\ informal_utterances = FALSE /\ random_order = FALSE
    /\ debug_mode \in BOOLEAN
    /\ area = None /\ price = None /\ food = None
    /\ restaurants = <<>>
    /\ sugg_restaurant = <<>>
    /\ pending_slot = None /\ pending_value = None /\ pending_state = None
    /\ pending_prompt = None /\ pending_message = NoMessage
    /\ pending_queue = <<>>
    /\ romantic = FALSE /\ children = FALSE
    /\ assigned_seats = FALSE /\ touristic = FALSE
    /\ prefference_order = <<AskArea, AskPrice, AskFood>>
    /\ state = None
    /\ system_utterance = NoMessage
    /\ turns = 0
    /\ last = [rule |-> "init", via |-> "label", confirmed |-> None, captured |-> <<>>]
    /\ filter_input = <<>> /\ filter_output = <<>>
    /\ extract_input = "" /\ extraction = <<>>
    /\ config_file \in ConfigFiles
    /\ construction = "pending"

\* dialogAgent(...): lines 27-50 and 71-74.
Construct ==
    /\ construction = "pending"
    /\ LET loaded == LoadConfig(config_file)
       IN /\ construction' = loaded.outcome
          /\ IF loaded.outcome = "done"
             THEN /\ confirm_preferences' = loaded.flags["confirm"]
                  /\ allow_restart' = loaded.flags["restart"]
                  /\ informal_utterances' = loaded.flags["informal"]
                  /\ random_order' = loaded.flags["random"]
             ELSE UNCHANGED <<confirm_preferences, allow_restart,
                              informal_utterances, random_order>>
    /\ UNCHANGED <<debug_mode, session, state, system_utterance, turns, last,
                   calls, config_file>>

ConfigSpec == ConfigInit /\ [][Construct]_vars

\* The flag the session holds for a key of config.json.
FlagOf(key) ==
    IF key = "confirm" THEN confirm_preferences
    ELSE IF key = "restart" THEN allow_restart
    ELSE IF key = "informal" THEN informal_utterances
    ELSE random_order

\* C24: creating a session never fails because of the configuration: with
\* config.json missing, unreadable or malformed (not valid JSON, or valid
\* JSON that is not an object) all four flags are false; a key absent from
\* a valid configuration is false.
C24_ConfigNeverFailsCreation ==
    /\ construction # "raised"
    /\ construction = "done" =>
          /\ config_file.kind # "object" => \A k \in ConfigKeys : ~FlagOf(k)
          /\ config_file.kind = "object" =>
                \A k \in ConfigKeys :
                    config_file.value[k] = Absent => ~FlagOf(k)

\* Line 295: the classifier is run on every utterance the turn is given.
CallsClassifier(utterance) == utterance.present

\* C25: the utterance "exit" ends the turn loop from every non-terminal
\* state and under every configuration, and the classifier is not called
\* for it.
C25_ExitEndsTheLoop ==
    Live =>
        \A u \in Utterances : u.is_exit =>
            /\ ~CallsClassifier(u)
            /\ \A r \in state_transition(Self, state, u) :
                   r.next_state = Goodbye
\* ------------------------------------------------------------ the extractor
\* keyword_extractor.py.  Texts are strings; a position is a 1-based index.
\* Lines 10-54: the values of the three columns of restaurant_info.csv the
\* module is imported with, and the options built from them.
dataset_pricerange == {"cheap", "moderate", "expensive"}
dataset_area == {"north", "south", "east", "west", "centre"}
dataset_food == {"thai", "romanian", "north american"}

pricerange_options == dataset_pricerange \cup {"dontcare"}
area_options == dataset_area \cup {"dontcare"}
food_options == dataset_food \cup {"dontcare"}

pricerange_keyword_map ==
    ("moderately" :> "moderate") @@ ("moderately priced" :> "moderate")
    @@ ("mid" :> "moderate") @@ ("midrange" :> "moderate")
    @@ ("mid-range" :> "moderate") @@ ("affordable" :> "moderate")
    @@ ("budget" :> "cheap") @@ ("low" :> "cheap") @@ ("inexpensive" :> "cheap")
    @@ ("pricey" :> "expensive") @@ ("high end" :> "expensive")
    @@ ("high-end" :> "expensive")
    @@ ("any" :> "dontcare") @@ ("any price" :> "dontcare")
    @@ ("dont care" :> "dontcare") @@ ("don't care" :> "dontcare")
    @@ ("doesnt matter" :> "dontcare") @@ ("doesn't matter" :> "dontcare")

area_keyword_map ==
    ("center" :> "centre") @@ ("city center" :> "centre")
    @@ ("city centre" :> "centre") @@ ("downtown" :> "centre")
    @@ ("north part of town" :> "north") @@ ("south part of town" :> "south")
    @@ ("east part of town" :> "east") @@ ("west part of town" :> "west")
    @@ ("any" :> "dontcare") @@ ("anywhere" :> "dontcare")
    @@ ("dont care" :> "dontcare") @@ ("don't care" :> "dontcare")
    @@ ("doesnt matter" :> "dontcare") @@ ("doesn't matter" :> "dontcare")

food_keyword_map ==
    ("europe" :> "european") @@ ("britain" :> "british")
    @@ ("portugese" :> "portuguese") @@ ("gastro pub" :> "gastropub")
    @@ ("asian-oriental" :> "asian oriental")
    @@ ("asian/oriental" :> "asian oriental")
    @@ ("any" :> "dontcare") @@ ("any food" :> "dontcare")
    @@ ("dont care" :> "dontcare") @@ ("don't care" :> "dontcare")
    @@ ("doesnt matter" :> "dontcare") @@ ("doesn't matter" :> "dontcare")

pricerange_indicator_terms ==
    {"price", "price range", "pricerange", "priced", "prices", "pricing",
     "cost", "costs", "costly", "expense", "expensive", "cheap",
     "budget", "affordable", "inexpensive", "how much"}

area_indicator_terms ==
    {"area", "part of town", "part of the town", "town", "neighborhood",
     "neighbourhood", "location", "side of town", "where",
     "in town", "area of town"}

food_indicator_terms ==
    {"food", "cuisine", "type of food", "kind of food", "meal", "dish",
     "type of cuisine", "serve", "serves", "serving", "served"}

stopwords ==
    {"a", "an", "and", "are", "as", "at", "be", "but", "for", "from",
     "in", "into", "is", "it", "of", "on", "or", "that", "the", "to",
     "was", "were", "will", "with"}

max_distance == 3

ExtractorSlots == {"pricerange", "area", "food"}

\* ---- characters
CharAt(s, i) == SubSeq(s, i, i)
CharsOf(s) == {CharAt(s, i) : i \in 1..Len(s)}

SmallLetters == "abcdefghijklmnopqrstuvwxyz"
CapitalLetters == "ABCDEFGHIJKLMNOPQRSTUVWXYZ"

\* \w of the regular expressions, on the characters the texts are made of
WordChars == CharsOf(SmallLetters) \cup CharsOf(CapitalLetters) \cup CharsOf("0123456789_")

\* the characters clean_text keeps besides \w and white space
KeptPunctuation == {"'", "&", "/", "-"}

LowerOf ==
    [c \in CharsOf(CapitalLetters) |->
        CharAt(SmallLetters, CHOOSE i \in 1..Len(CapitalLetters) : CharAt(CapitalLetters, i) = c)]

\* str.lower
RECURSIVE LowerFrom(_, _)
LowerFrom(s, i) ==
    IF i > Len(s) THEN ""
    ELSE LET c == CharAt(s, i)
         IN (IF c \in DOMAIN LowerOf THEN LowerOf[c] ELSE c) \o LowerFrom(s, i + 1)

lower(s) == LowerFrom(s, 1)

\* str.split: the maximal runs of characters other than white space
RECURSIVE SplitFrom(_, _, _, _)
SplitFrom(s, i, word, words) ==
    IF i > Len(s)
    THEN IF word = "" THEN words ELSE Append(words, word)
    ELSE IF CharAt(s, i) = " "
         THEN SplitFrom(s, i + 1, "", IF word = "" THEN words ELSE Append(words, word))
         ELSE SplitFrom(s, i + 1, word \o CharAt(s, i), words)

split(s) == SplitFrom(s, 1, "", <<>>)

\* " ".join(words)
RECURSIVE join(_)
join(words) ==
    IF words = <<>> THEN ""
    ELSE IF Len(words) = 1 THEN words[1]
    ELSE words[1] \o " " \o join(Tail(words))

\* re.sub(r"[^\w\s'&/-]+", " ", s)
RECURSIVE BlankOthersFrom(_, _)
BlankOthersFrom(s, i) ==
    IF i > Len(s) THEN ""
    ELSE LET c == CharAt(s, i)
         IN (IF c \in WordChars \cup KeptPunctuation \cup {" "} THEN c ELSE " ")
            \o BlankOthersFrom(s, i + 1)

\* Lines 135-143: lower case, other characters to spaces, runs of white
\* space to one space, stripped.
clean_text(text) == join(split(BlankOthersFrom(lower(text), 1)))

\* ---- exact matching
\* \b at the gap after position p (0..Len): exactly one neighbour is \w.
IsWordAt(text, p) == p >= 1 /\ p <= Len(text) /\ CharAt(text, p) \in WordChars
Boundary(text, p) == IsWordAt(text, p) # IsWordAt(text, p + 1)

\* The positions where \bkeyword\b matches in the text.
Occurrences(keyword, text) ==
    {i \in 1..(Len(text) - Len(keyword) + 1) :
        /\ SubSeq(text, i, i + Len(keyword) - 1) = keyword
        /\ Boundary(text, i - 1)
        /\ Boundary(text, i + Len(keyword) - 1)}

\* Lines 145-154: the cleaned keywords.  The list is sorted by length,
\* longest first; keywords of equal length come in the iteration order of
\* the set, which differs from one process to the next.
make_regex_patterns(keywords) == {clean_text(k) : k \in keywords} \ {""}

Longest(keywords) == {k \in keywords : \A h \in keywords : Len(h) <= Len(k)}

NoSpan == [start |-> 0, end |-> 0]

\* Lines 179-188: the keywords first_match_with_span can return, each with
\* the span (start, end) of its leftmost match: any longest keyword that
\* matches, or None.
first_match_with_span(patterns, text) ==
    LET hits == {k \in patterns : Occurrences(k, text) # {}}
    IN IF hits = {} THEN {[keyword |-> None, span |-> NoSpan]}
       ELSE {[keyword |-> k,
              span |-> LET i == CHOOSE i \in Occurrences(k, text) :
                                   \A j \in Occurrences(k, text) : i <= j
                       IN [start |-> i - 1, end |-> i - 1 + Len(k)]]
             : k \in Longest(hits)}

\* Lines 168-176, as used by line 197: whether some pattern matches.
first_match(patterns, text) == \E k \in patterns : Occurrences(k, text) # {}

KeywordMapOf(slot) ==
    IF slot = "pricerange" THEN pricerange_keyword_map
    ELSE IF slot = "area" THEN area_keyword_map
    ELSE food_keyword_map

OptionsOf(slot) ==
    IF slot = "pricerange" THEN pricerange_options
    ELSE IF slot = "area" THEN area_options
    ELSE food_options

IndicatorTermsOf(slot) ==
    IF slot = "pricerange" THEN pricerange_indicator_terms
    ELSE IF slot = "area" THEN area_indicator_terms
    ELSE food_indicator_terms

\* Lines 157-166.
slot_mention_patterns ==
    [slot \in ExtractorSlots |->
        make_regex_patterns(OptionsOf(slot) \cup DOMAIN KeywordMapOf(slot)
                            \cup IndicatorTermsOf(slot))]

\* The patterns of lines 282-284.
value_patterns ==
    [slot \in ExtractorSlots |->
        make_regex_patterns(OptionsOf(slot) \cup DOMAIN KeywordMapOf(slot))]

\* Lines 190-199.
detect_preference_mentions(text) ==
    [slot \in ExtractorSlots |-> first_match(slot_mention_patterns[slot], clean_text(text))]

\* Lines 201-215.
map_keyword_to_option(keyword, keyword_map, options) ==
    IF keyword = None \/ keyword = "" THEN None
    ELSE LET mapped == IF keyword \in DOMAIN keyword_map
                       THEN keyword_map[keyword] ELSE keyword
         IN IF mapped \in options THEN mapped ELSE None

\* ---- fuzzy recovery
Min3(a, b, c) == IF a <= b /\ a <= c THEN a ELSE IF b <= c THEN b ELSE c

\* One row of the edit-distance table: row[j + 1] is the distance between
\* the first i characters of a and the first j characters of b.  (The tests
\* on Len make each row be computed before the next one is started.)
RECURSIVE NextRow(_, _, _, _)
NextRow(prev, c, b, row) ==
    IF Len(row) = Len(b) + 1 THEN row
    ELSE LET j == Len(row)
             longer == Append(row, Min3(prev[j + 1] + 1, row[j] + 1,
                                        prev[j] + (IF c = CharAt(b, j) THEN 0 ELSE 1)))
         IN IF Len(longer) > 0 THEN NextRow(prev, c, b, longer) ELSE <<>>

RECURSIVE RowsFrom(_, _, _, _)
RowsFrom(a, i, b, prev) ==
    IF i > Len(a) THEN prev[Len(b) + 1]
    ELSE LET row == NextRow(prev, CharAt(a, i), b, <<i>>)
         IN IF Len(row) > 0 THEN RowsFrom(a, i + 1, b, row) ELSE 0

\* Levenshtein.distance
levenshtein_distance(a, b) == RowsFrom(a, 1, b, [j \in 1..(Len(b) + 1) |-> j - 1])

MaxOf(a, b) == IF a >= b THEN a ELSE b
MinOf(a, b) == IF a <= b THEN a ELSE b

\* Line 243: the windows of word_count tokens, joined.
Segments(tokens, word_count) ==
    {join(SubSeq(tokens, i, i + word_count - 1)) : i \in 1..(Len(tokens) - word_count + 1)}

\* Line 247: the distance a segment may be from the candidate.
allowed_distance(candidate_clean) ==
    MaxOf(1, MinOf(max_distance, Len(candidate_clean) \div 3))

Accepts_short_segments(seg, candidate_clean) ==
    levenshtein_distance(seg, candidate_clean) <= allowed_distance(candidate_clean)

\* Lines 249-255: a segment of fewer than three characters is skipped, and
\* so is one farther from the candidate than the allowed distance.
Accepts(seg, candidate_clean) ==
    /\ ~(seg = "" \/ Len(seg) < 3)
    /\ ~(levenshtein_distance(seg, candidate_clean) > allowed_distance(candidate_clean))

\* Lines 233-264: the candidates within their allowed distance of a
\* segment of at least three characters, with the value they map to.
FuzzyHits(tokens, keyword_map, options) ==
    UNION {LET candidate_clean == clean_text(candidate)
               mapped_value == map_keyword_to_option(candidate_clean, keyword_map, options)
               word_count == MaxOf(1, Len(split(candidate_clean)))
           IN IF candidate_clean = "" \/ mapped_value = None THEN {}
              ELSE {[value |-> mapped_value, distance |-> levenshtein_distance(seg, candidate_clean)]
                    : seg \in {g \in Segments(tokens, word_count) : Accepts(g, candidate_clean)}}
           : candidate \in options \cup DOMAIN keyword_map}

fuzzy_find_keyword_closest_wins(text, keyword_map, options) ==
    LET tokens == SelectSeq(split(clean_text(text)), LAMBDA t : t \notin stopwords)
        hits == IF tokens = <<>> THEN {} ELSE FuzzyHits(tokens, keyword_map, options)
    IN IF hits # {}
       THEN {h.value : h \in {g \in hits : \A k \in hits : g.distance <= k.distance}}
       ELSE {None}

\* Lines 217-272: the values fuzzy_find_keyword can return.  The candidates
\* are visited in the iteration order of a set and a later candidate wins
\* only when strictly closer, so among the concrete candidates at the least
\* distance the first one visited gives the value.
fuzzy_find_keyword(text, keyword_map, options) ==
    LET tokens == SelectSeq(split(clean_text(text)), LAMBDA t : t \notin stopwords)
        hits == IF tokens = <<>> THEN {} ELSE FuzzyHits(tokens, keyword_map, options)
        concrete == {h \in hits : h.value # "dontcare"}
    IN IF concrete # {}
       THEN {h.value : h \in {g \in concrete : \A k \in concrete : g.distance <= k.distance}}
       ELSE IF hits # {} THEN {"dontcare"}
       ELSE {None}

\* ---- extraction
\* Lines 295-296.
RECURSIVE Spaces(_)
Spaces(n) == IF n = 0 THEN "" ELSE " " \o Spaces(n - 1)

Mask_keeps_text(text, span) == text

Mask(text, span) ==
    SubSeq(text, 1, span.start) \o Spaces(span.end - span.start)
        \o SubSeq(text, span.end + 1, Len(text))

Merge_prefers_fuzzy(exact, fuzzy) ==
    IF fuzzy # None THEN fuzzy ELSE exact

\* Lines 313-318.
Merge(exact, fuzzy) ==
    IF exact = None \/ (exact = "dontcare" /\ fuzzy \notin {None, "dontcare"})
    THEN IF fuzzy # None THEN fuzzy ELSE exact
    ELSE exact

Sentinel_ignores_mentions(value, mentioned) ==
    IF value = None THEN "unknown" ELSE value

\* Lines 321-327.
Sentinel(value, mentioned) ==
    IF value = None THEN (IF mentioned THEN "unknown" ELSE None)
    ELSE value

\* Lines 274-329: the locals extract_keywords can return with, for each
\* order in which its sets can be iterated.
extract_locals(original_text) ==
    LET text == lower(original_text)
    IN UNION {UNION {
         LET masked == food_match.keyword # None
             area_search_text == IF masked THEN Mask(text, food_match.span) ELSE text
             area_fuzzy_text == IF masked THEN Mask(original_text, food_match.span)
                                ELSE original_text
             detected == detect_preference_mentions(original_text)
             mentions == IF masked
                         THEN [detected EXCEPT !["area"] =
                                  first_match(slot_mention_patterns["area"],
                                              clean_text(area_fuzzy_text))]
                         ELSE detected
         IN {LET exact == [slot \in ExtractorSlots |->
                             map_keyword_to_option(
                                 IF slot = "pricerange" THEN price_match.keyword
                                 ELSE IF slot = "area" THEN area_match.keyword
                                 ELSE food_match.keyword,
                                 KeywordMapOf(slot), OptionsOf(slot))]
                 fuzzy == [slot \in ExtractorSlots |->
                             IF slot = "pricerange" THEN fuzzy_price
                             ELSE IF slot = "area" THEN fuzzy_area ELSE fuzzy_food]
             IN [food_match |-> food_match.keyword, food_span |-> food_match.span,
                 exact |-> exact, fuzzy |-> fuzzy, mentions |-> mentions,
                 output |-> [slot \in ExtractorSlots |->
                               Sentinel(Merge(exact[slot], fuzzy[slot]), mentions[slot])]]
             : area_match \in first_match_with_span(value_patterns["area"], area_search_text),
               fuzzy_price \in fuzzy_find_keyword(original_text, pricerange_keyword_map,
                                                  pricerange_options),
               fuzzy_area \in fuzzy_find_keyword(area_fuzzy_text, area_keyword_map,
                                                 area_options),
               fuzzy_food \in fuzzy_find_keyword(original_text, food_keyword_map,
                                                 food_options)}
         : food_match \in first_match_with_span(value_patterns["food"], text)}
       : price_match \in first_match_with_span(value_patterns["pricerange"], text)}

extract_keywords(text) == {l.output : l \in extract_locals(text)}

\* A specification of the extractor alone: one call of extract_keywords on
\* a text made of at most MaxPhrases of the phrases below.
MaxPhrases == 2

Phrases ==
    {"what about the price", "I want north american", "wast", "any",
     "cheep", "Thai!", "the cost", "cheap", "pricey", "lo"}

RECURSIVE TextsOf(_)
TextsOf(n) ==
    IF n = 1 THEN Phrases
    ELSE LET shorter == TextsOf(n - 1)
         IN shorter \cup {t \o " " \o p : t \in shorter, p \in Phrases}

Texts == TextsOf(MaxPhrases)

ExtractInit ==
    /\ confirm_preferences = FALSE /\ allow_restart = FALSE
    /\ informal_utterances = FALSE /\ random_order = FALSE /\ debug_mode = FALSE
    /\ area = None /\ price = None /\ food = None
    /\ restaurants = <<>>
    /\ sugg_restaurant = <<>>
    /\ pending_slot = None /\ pending_value = None /\ pending_state = None
    /\ pending_prompt = None /\ pending_message = NoMessage
    /\ pending_queue = <<>>
    /\ romantic = FALSE /\ children = FALSE
    /\ assigned_seats = FALSE /\ touristic = FALSE
    /\ prefference_order = <<AskArea, AskPrice, AskFood>>
    /\ state = None
    /\ system_utterance = NoMessage
    /\ turns = 0
    /\ last = [rule |-> "init", via |-> "label", confirmed |-> None, captured |-> <<>>]
    /\ filter_input = <<>> /\ filter_output = <<>>
    /\ extract_input \in Texts
    /\ extraction = <<>>
    /\ config_file = [kind |-> "missing", value |-> <<>>]
    /\ construction = "done"

\* The call: extract_keywords(extract_input).
ExtractCall ==
    /\ last.rule = "init"
    /\ extraction' \in extract_locals(extract_input)
    /\ last' = [last EXCEPT !.rule = "extract"]
    /\ UNCHANGED <<config, session, state, system_utterance, turns,
                   filter_input, filter_output, extract_input, boot>>

ExtractSpec == ExtractInit /\ [][ExtractCall]_vars

Extracted == last.rule = "extract"

\* The text outside the matched food phrase.
Rest(text, span) ==
    SubSeq(text, 1, span.start) \o " " \o SubSeq(text, span.end + 1, Len(text))

\* The text the area of the extraction in hand is to be read from.
AreaText ==
    IF extraction.food_match # None
    THEN Rest(extract_input, extraction.food_span) ELSE extract_input

\* The mention detector fires for the slot.
Mentioned(slot) ==
    \E k \in slot_mention_patterns[slot] :
        Occurrences(k, clean_text(IF slot = "area" THEN AreaText ELSE extract_input)) # {}

\* C26: in the result of extract_keywords a slot is 'unknown' only if the
\* mention detector fired for it (for area: on the text with the matched
\* food phrase masked); a slot with no resolved value and no detected
\* mention is absent.
C26_UnknownOnlyWhenMentioned ==
    Extracted =>
        \A slot \in ExtractorSlots :
            /\ extraction.output[slot] = "unknown" => Mentioned(slot)
            /\ (extraction.exact[slot] = None /\ extraction.fuzzy[slot] = None
                   /\ ~Mentioned(slot))
                 => extraction.output[slot] = None

\* The area word inside the food phrase is no mention of the area, while
\* the price, mentioned without a value, is unknown.
C26_Witness ==
    /\ Extracted
    /\ extract_input = "the cost I want north american"
    /\ extraction.output = [pricerange |-> "unknown", area |-> None,
                            food |-> "north american"]

\* C27: for an utterance that mentions a slot's generic indicator word and
\* gives no value for it, here "what about the price", the slot is
\* 'unknown' in the result: not absent, not a concrete value.
C27_IndicatorWordIsUnknown ==
    (Extracted /\ extract_input = "what about the price")
        => extraction.output["pricerange"] = "unknown"

\* C28: the result of extract_keywords is a function of the text alone: it
\* does not depend on the order in which the candidate phrases are
\* iterated, also when two candidates that map to different values are at
\* the same distance.
C28_ResultDependsOnTextOnly ==
    Extracted =>
        \A other \in extract_locals(extract_input) :
            other.output = extraction.output

\* The area results of a text with no food phrase to mask.
AreaOutcomes(text) ==
    {Sentinel(Merge(map_keyword_to_option(area_match.keyword, area_keyword_map,
                                          area_options),
                    fuzzy_area),
              first_match(slot_mention_patterns["area"], clean_text(text)))
     : area_match \in first_match_with_span(value_patterns["area"], lower(text)),
       fuzzy_area \in fuzzy_find_keyword(text, area_keyword_map, area_options)}

\* C29: when a food phrase is matched, the area keywords inside it give no
\* area value and no area mention, by exact matching or by fuzzy recovery:
\* the area of the result is what the rest of the text gives, and it is
\* absent for 'north american' with no other reference to an area.
C29_FoodPhraseMasksArea ==
    (Extracted /\ extraction.food_match # None) =>
        /\ extraction.output["area"]
              \in AreaOutcomes(Rest(extract_input, extraction.food_span))
        /\ extract_input = "I want north american"
              => extraction.output["area"] = None

C29_Witness ==
    /\ Extracted
    /\ extract_input = "I want north american"
    /\ extraction.food_match = "north american"
    /\ extraction.output = [pricerange |-> None, area |-> None,
                            food |-> "north american"]

\* C30: per slot, the merged value is the fuzzy result when the exact match
\* is empty, or when the exact match is the wildcard and fuzzy recovery
\* gave a concrete value; otherwise the exact match is kept.  (An empty
\* merged value is then reported as 'unknown' or absent.)
C30_MergeRule ==
    Extracted =>
        \A slot \in ExtractorSlots :
            LET exact == extraction.exact[slot]
                fuzzy == extraction.fuzzy[slot]
                final == extraction.output[slot]
            IN IF exact = None
               THEN IF fuzzy # None THEN final = fuzzy
                    ELSE final \in {None, "unknown"}
               ELSE IF exact = "dontcare" /\ fuzzy \notin {None, "dontcare"}
               THEN final = fuzzy
               ELSE final = exact

\* The exact match of the price is the wildcard and fuzzy recovery gives a
\* concrete value.
C30_Witness ==
    /\ Extracted
    /\ extract_input = "any cheep"
    /\ extraction.exact["pricerange"] = "dontcare"
    /\ extraction.fuzzy["pricerange"] = "cheap"
    /\ extraction.output["pricerange"] = "cheap"

\* ---- fuzzy recovery ----
\* The text the fuzzy recovery of the slot reads in the extraction in hand.
FuzzyText(slot) == IF slot = "area" THEN AreaText ELSE extract_input

\* The token windows of n words of a text, stop words left out.
Windows(text, n) ==
    LET tokens == SelectSeq(split(clean_text(text)), LAMBDA t : t \notin stopwords)
    IN {join(SubSeq(tokens, i, i + n - 1)) : i \in 1..(Len(tokens) - n + 1)}

\* The distance budget of a candidate phrase.
Budget(phrase) ==
    LET third == Len(phrase) \div 3
        capped == IF third > 3 THEN 3 ELSE third
    IN IF capped < 1 THEN 1 ELSE capped

\* The candidate phrases of the slot that stand for the value, cleaned.
PhrasesFor(slot, wildcard) ==
    {clean_text(c) : c \in {k \in OptionsOf(slot) \cup DOMAIN KeywordMapOf(slot) :
        LET value == map_keyword_to_option(clean_text(k), KeywordMapOf(slot), OptionsOf(slot))
        IN value # None /\ ((value = "dontcare") = wildcard)}}

\* Some window of the text, of as many words as the phrase, is within the
\* budget of the phrase.  (Two strings are at least as far apart as their
\* lengths differ, so the lengths are compared first.)
WithinBudget(text, phrase) ==
    \E w \in Windows(text, MaxOf(1, Len(split(phrase)))) :
        /\ Len(w) >= 3
        /\ Len(w) - Len(phrase) <= Budget(phrase)
        /\ Len(phrase) - Len(w) <= Budget(phrase)
        /\ levenshtein_distance(w, phrase) <= Budget(phrase)

ConcreteInBudget(slot) == \E p \in PhrasesFor(slot, FALSE) : WithinBudget(FuzzyText(slot), p)

WildcardInBudget(slot) == \E p \in PhrasesFor(slot, TRUE) : WithinBudget(FuzzyText(slot), p)

\* C31: fuzzy recovery gives a concrete value whenever a concrete candidate
\* phrase is within its budget of a window, the wildcard only when no
\* concrete candidate is and a wildcard phrase is, and nothing otherwise.
C31_ConcreteBeforeWildcard ==
    Extracted =>
        \A slot \in ExtractorSlots :
            LET value == extraction.fuzzy[slot]
            IN IF ConcreteInBudget(slot) THEN value \notin {None, "dontcare"}
               ELSE IF WildcardInBudget(slot) THEN value = "dontcare"
               ELSE value = None

\* A text where a wildcard phrase matches exactly and a concrete phrase is
\* one edit away: the concrete value is recovered.
C31_Witness ==
    /\ Extracted
    /\ \E p \in PhrasesFor("pricerange", TRUE) :
           \E w \in Windows(extract_input, 1) : w = p
    /\ \A p \in PhrasesFor("pricerange", FALSE) :
           \A w \in Windows(extract_input, 1) : w # p
    /\ ConcreteInBudget("pricerange")
    /\ extraction.fuzzy["pricerange"] = "cheap"


\* The pairs of a window of the text and a candidate phrase of the slot,
\* the window of as many words as the phrase, with the value of the phrase.
WindowPairs(slot) ==
    UNION {{[window |-> w, phrase |-> p,
             value |-> map_keyword_to_option(p, KeywordMapOf(slot), OptionsOf(slot))]
            : w \in Windows(FuzzyText(slot), MaxOf(1, Len(split(p))))}
           : p \in PhrasesFor(slot, FALSE) \cup PhrasesFor(slot, TRUE)}

\* The window is of three characters or more and within the budget.
MayBeAccepted(pair) ==
    /\ Len(pair.window) >= 3
    /\ Len(pair.window) - Len(pair.phrase) <= Budget(pair.phrase)
    /\ Len(pair.phrase) - Len(pair.window) <= Budget(pair.phrase)
    /\ levenshtein_distance(pair.window, pair.phrase) <= Budget(pair.phrase)

\* C40: a value recovered by the fuzzy search comes from a window of at
\* least three characters whose distance to a phrase of that value is at
\* most max(1, min(3, len(phrase) div 3)); so when every window close enough
\* to a phrase is shorter than three characters, nothing is recovered.
C40_WindowAcceptance ==
    Extracted =>
        \A slot \in ExtractorSlots :
            extraction.fuzzy[slot] # None
                => \E pair \in WindowPairs(slot) :
                       MayBeAccepted(pair) /\ pair.value = extraction.fuzzy[slot]

\* A window of two characters is one edit from a phrase, within its
\* budget, and nothing is recovered for the slot.
C40_Witness ==
    /\ Extracted
    /\ \E pair \in WindowPairs("pricerange") :
           /\ Len(pair.window) < 3
           /\ levenshtein_distance(pair.window, pair.phrase) <= Budget(pair.phrase)
    /\ extraction.fuzzy["pricerange"] = None


\* ------------------------------------------------ secondary preferences
\* The three required slots are set.
AllSlotsSet == area # None /\ price # None /\ food # None

\* C32: a turn changes a secondary-preference flag only if it starts in
\* Ask-Additional-Preferences with area, price and food all set; in any other
\* state an utterance leaves the flags as they were, flag keywords or not.
C32_FlagsOnlyAfterSlots ==
    \A u \in Utterances :
        \A r \in state_transition(Self, state, u) :
            Flags(r.s) # Flags(Self) => (state = AskAdditional /\ AllSlotsSet)

\* A flag has been set by the answer to the question about additional
\* preferences, and the lookup has been made with it.
C32_Witness ==
    /\ romantic /\ last.rule \in {"change", "suggest_one", "suggest_many"}
    /\ AllSlotsSet


\* ------------------------------------------------ when the extractor runs
\* The turn is neither a restart nor the answer to a confirmation, which are
\* handled before the extraction.
ReachesExtraction(u) ==
    /\ Live
    /\ ~(allow_restart /\ RestartTrigger(u))
    /\ ~(confirm_preferences /\ state = ConfirmPreference)

\* The turn took the value for the slot: stored it, or with confirmation
\* required put it last among the confirmations held for the slot.
Takes(r, slot, value) ==
    IF confirm_preferences
    THEN EntriesOf(r.s, slot) =
             Append(EntriesOf(Self, slot), [slot |-> slot, value |-> value])
    ELSE SlotValue(r.s, slot) = value

\* The turn left the slot and the confirmations held for it as they were.
Leaves(r, slot) ==
    /\ SlotValue(r.s, slot) = SlotValue(Self, slot)
    /\ EntriesOf(r.s, slot) = EntriesOf(Self, slot)

\* An inform, or a request or reqalts before all three slots are known,
\* takes the concrete values of the utterance.
C33_ExtractorRunsEarly ==
    \A u \in Utterances :
        (/\ ReachesExtraction(u)
         /\ u.act = "inform" \/ (u.act \in {"request", "reqalts"} /\ ~AllSlotsSet))
        => \A r \in state_transition(Self, state, u) :
               \A slot \in Slots :
                   u.out[SlotKey(slot)] \in DomainOf(slot)
                       => Takes(r, slot, u.out[SlotKey(slot)])

\* C33: an inform act, and a request or reqalts act received before all
\* three required slots are known, runs the slot extractor; a request or
\* reqalts act received when area, price and food are all known changes and
\* queues no slot value.
C33_ExtractionByActAndSlots ==
    /\ C33_ExtractorRunsEarly
    /\ \A u \in Utterances :
          (ReachesExtraction(u) /\ u.act \in {"request", "reqalts"} /\ AllSlotsSet)
          => \A r \in state_transition(Self, state, u) :
                 \A slot \in Slots : Leaves(r, slot)


\* ------------------------------------------------------- asking for slots
\* The question of the slot's ask state, in the configured phrasing.
PromptOf(slot) ==
    IF slot = "area" THEN AskAreaMessage
    ELSE IF slot = "price" THEN AskPriceMessage ELSE AskFoodMessage

\* C34: a turn that starts in Welcome or an Ask state, is not a restart
\* turn and does not go to confirmation, and after which one of area, price
\* and food is still unset, returns the ask state of an unset slot with its
\* question, never the fallback; also after a restart.
C34_AsksForUnsetSlot ==
    \A u \in Utterances :
        (Live /\ state \in SlotFillingStates /\ ~(allow_restart /\ RestartTrigger(u)))
        => \A r \in state_transition(Self, state, u) :
               (/\ r.next_state # ConfirmPreference
                /\ r.rule # "exit"
                /\ \E slot \in Slots : SlotValue(r.s, slot) = None)
               => \E slot \in Slots :
                      /\ SlotValue(r.s, slot) = None
                      /\ r.next_state = AskStateOf(slot)
                      /\ r.response_utterance = PromptOf(slot)


\* ------------------------------------------------- pending confirmations
\* A confirmation is active: a slot and a value await the user's yes or no.
PendingActive == pending_slot # None /\ pending_value # None

\* Nothing is kept for a confirmation.
PendingEmpty ==
    /\ pending_slot = None /\ pending_value = None /\ pending_state = None
    /\ pending_prompt = None /\ pending_message = NoMessage
    /\ pending_queue = <<>>

\* C35: the state returned is Confirm-Preference exactly when a confirmation
\* is active; when confirmation is not required Confirm-Preference is never
\* returned and the pending fields and the queue stay empty.
C35_ConfirmIffPending ==
    /\ (state = ConfirmPreference) <=> PendingActive
    /\ ~confirm_preferences => (state # ConfirmPreference /\ PendingEmpty)

\* A confirmation is active after a capture, and another value is queued
\* behind it.
C35_Witness ==
    /\ state = ConfirmPreference /\ PendingActive /\ pending_queue # <<>>
    /\ last.rule = "capture"


\* ------------------------------------------------- the current suggestion
\* The states whose messages name the suggested restaurant.
SuggestionStates == {SuggestRestaurant, ProvideInformation, LastStatement}

\* C36: whenever the state is Suggest-Restaurant, Provide-Information or
\* Last-Statement there is a current suggestion, and no turn taken in one
\* of them fails on an empty suggestion; restarts included.
C36_SuggestionExists ==
    /\ state \in SuggestionStates => sugg_restaurant # <<>>
    /\ state # Raised
    /\ state \in SuggestionStates =>
          \A u \in Utterances :
              \A r \in state_transition(Self, state, u) : r.rule # "raised"

\* Details of the suggestion have been given on request, and alternatives
\* are left.
C36_Witness ==
    /\ state = ProvideInformation /\ last.rule = "provide"
    /\ sugg_restaurant # <<>> /\ restaurants # <<>>
    /\ system_utterance.args[1] = sugg_restaurant[1].restaurantname


\* ------------------------------------------------------- the alternatives
\* The turn just taken made a lookup.
LookupMade == last.rule \in {"change", "suggest_one", "suggest_many"}

\* The names of the restaurants a lookup and filter with the session's
\* slots and flags returns.
Returned(s) ==
    {row.restaurantname :
        row \in SeqToSet(reasoning_rules_filter(
                    look_up_restaurants(s.area, s.price, s.food), Flags(s)))}

\* C37: the alternatives list holds only candidates of the most recent
\* lookup: right after a lookup, whatever the number of its results, every
\* alternative is a restaurant that lookup and filter returned, and a
\* reqalts act suggests no other.
C37_AlternativesFromLatestLookup ==
    LookupMade =>
        /\ \A row \in SeqToSet(restaurants) : row.restaurantname \in Returned(Self)
        /\ \A u \in Utterances : AsksAlternative(u) =>
              \A r \in state_transition(Self, state, u) :
                  r.rule = "reqalts_next"
                      => r.s.sugg_restaurant[1].restaurantname \in Returned(Self)


\* The names of the restaurants of a list.
NamesOf(rows) == {rows[i].restaurantname : i \in 1..Len(rows)}

\* C38: the current suggestion is never among the alternatives, and no
\* restaurant is suggested twice between two lookups: the alternatives are
\* distinct restaurants, and a reqalts act suggests a restaurant other than
\* the current suggestion without putting that one back on the list.
C38_NoRepeatedSuggestion ==
    /\ sugg_restaurant # <<>> =>
          sugg_restaurant[1].restaurantname \notin NamesOf(restaurants)
    /\ Cardinality(NamesOf(restaurants)) = Len(restaurants)
    /\ \A u \in Utterances : AsksAlternative(u) =>
          \A r \in state_transition(Self, state, u) :
              r.rule = "reqalts_next" =>
                  /\ r.s.sugg_restaurant[1].restaurantname
                        # sugg_restaurant[1].restaurantname
                  /\ sugg_restaurant[1].restaurantname \notin NamesOf(r.s.restaurants)


\* C39: in Suggest-Restaurant, Provide-Information and Last-Statement the
\* area, price range and food of the current suggestion equal the session's
\* area, price and food, wherever these are not the wildcard.
C39_SuggestionMatchesSlots ==
    (state \in SuggestionStates /\ sugg_restaurant # <<>>) =>
        \A slot \in Slots :
            SlotValue(Self, slot) # "dontcare"
                => sugg_restaurant[1][SlotKey(slot)] = SlotValue(Self, slot)

=============================================================================
